---- MODULE Spec2Model ----
(***************************************************************************)
(* Model of the Google Maps scraper: the crawl driver                       *)
(* (TestContact.test_contact), collection (GoogleMaps.gmaps_input), the     *)
(* checkpoint file (save_urls_to_json / load_place_urls), the item loop     *)
(* (get_details), the link resolver (get_social_media_links), session       *)
(* rotation (refresh_proxy_session), field extraction and the record       *)
(* (safe_execute, sanitize_place_data), the write-back sink                 *)
(* (write_place_data) and the sheet it writes to (write_headers,            *)
(* write_values).                                                           *)
(*                                                                          *)
(* The program is single threaded.  Every browser or store call is an       *)
(* input of the environment: it either returns or raises, and the actions   *)
(* draw that outcome with \E.                                               *)
(***************************************************************************)
EXTENDS Integers, Sequences, FiniteSets, TLC

VARIABLES
    pc,               \* position of the driver in setUp / test_contact / get_details
    location,         \* the parameter of test_contact
    sheet_identifier, \* self.sheet_identifier: sheet title and batch key
    catIdx,           \* position in business_categories (1-based)
    business,         \* self.current_business_type
    files,            \* session/<key>_url.json: NoFile or the JSON text
    urls,             \* get_details: the loaded batch
    index,            \* get_details: enumerate index (0-based)
    rotations,        \* calls of refresh_proxy_session in this get_details
    navigated,        \* items of this get_details whose navigation was attempted
    raised,           \* items of this get_details whose processing raised
    handed,           \* records of this get_details handed to write_place_data
    driverAlive,      \* self.driver is a live browser session
    liveSessions,     \* browser sessions that were started and not quit
    tabs,             \* tabs of self.driver opened by overlay entries, still open
    origOpen,         \* the first (detail) tab of self.driver is open
    focus,            \* tab the driver is focused on: "orig", "entry", "closed"
    inFrame,          \* driver context is inside the overlay iframe
    entriesLeft,      \* get_social_media_links: elements not yet iterated
    linksVia,         \* how get_social_media_links last returned
    wAttempt,         \* write_place_data: the loop variable attempt
    wOk,              \* write_place_data: the previous attempt returned
    lastCollect,      \* outcome of the gmaps_input call of this category
    collected,        \* all_result_urls of that call
    loadFailed,       \* load_place_urls raised in this run
    entryCap,         \* most overlay entries a detail page of this run shows
    pageVaries,       \* detail pages of this run may lack fields or show them empty
    destUrls,         \* addresses the overlay entries of this run lead to
    storeUp,          \* the spreadsheet service answers in this run
    navs,             \* get_details: self.open calls made for the current item
    nameTries,        \* get_details: extractions of PLACE_NAME for the current item
    firstName,        \* place_name after its first extraction (line 136)
    fields,           \* place_name .. plus_code of the current item
    count_text,       \* what get_text gave for the review count, None if it raised
    instagram_link,   \* get_social_media_links: local
    facebook_link,    \* get_social_media_links: local
    other_links,      \* get_social_media_links: local list
    social_links,     \* what get_social_media_links returned
    place_data,       \* the sanitized list handed to write_place_data
    sheet,            \* the sheet titled sheet_identifier in the spreadsheet
    stored,           \* write_values calls of this run that returned
    scroll_i,         \* scroll_get_all_links: iterations of the for loop that ended
    result_ind,       \* scroll_get_all_links: local
    scroll_ok,        \* scroll_get_all_links: iterations whose try block ran to its end
    feed,             \* gmaps_input: hrefs of the anchors find_elements(RESULT_URLS) gave
    sheets,           \* the spreadsheet: title and sheetId of each of its sheets
    returned,         \* create_new_sheet calls made: title, fault and value returned
    headers_set,      \* the instance has the attribute headers when GoogleMaps.setUp begins
    sheets_api,       \* self.sheets_api holds a MapsBusinessInfo client
    session_dir,      \* create_required_dir has made the directory session
    read_urls,        \* get_social_media_links: what get_current_url returned, in order
    session_data,     \* Session.session_data: for each url its dict, or no entry
    sess_files,       \* the files session/<sanitized url>.json
    last_set,         \* for each url and key the value set_match_session was last given
    loaded,           \* the url of the load_session_data call that was the last call made
    lastRotation      \* outcome of the refresh_proxy_session call of this item

vars == << pc, location, sheet_identifier, catIdx, business, files, urls, index,
           rotations, navigated, raised, handed, driverAlive, liveSessions,
           tabs, origOpen, focus, inFrame, entriesLeft, linksVia, wAttempt, wOk,
           lastCollect, collected, loadFailed, entryCap, pageVaries, destUrls,
           storeUp, navs, nameTries, firstName, fields, count_text, instagram_link,
           facebook_link, other_links, social_links, place_data,
           sheet, stored, scroll_i, result_ind, scroll_ok,
           feed,
           sheets, returned,
           headers_set, sheets_api, session_dir,
           read_urls,
           session_data, sess_files, last_set, loaded,
           lastRotation >>

----------------------------------------------------------------------------
(* Bounds *)

MaxAnchors == 2     \* most anchors the result feed shows in one collection
MaxEntries == 2     \* most overlay entries of one detail page
MaxBatch == 21      \* longest batch of the item-loop specification
MaxFields == 4      \* longest list given to sanitize_place_data on its own

(* Program constants *)

RotateEvery == 10   \* scraper.py:127
max_retries == 2    \* scraper.py:282

Locations == {"Springfield", "Shelbyville"}      \* config["locations"]
business_categories == << "bakery", "florist" >> \* config["business_categories"]

PlacePrefix == "https://www.google.com/maps/place"
OtherPrefix == "https://www.google.com/maps/search"

\* An address is its leading part followed by the rest of it.
Href(prefix, rest) == << prefix, rest >>
StartsWith(h, prefix) == h[1] = prefix
Hrefs == { Href(PlacePrefix, "/A"), Href(PlacePrefix, "/B"), Href(OtherPrefix, "/place/X") }

\* A file of the session directory: absent, or present with its text.
NoFile == [exists |-> FALSE, text |-> << >>]
FileOf(text) == [exists |-> TRUE, text |-> text]

----------------------------------------------------------------------------
(* Sequences *)

SeqsUpTo(S, n) == UNION { [1..k -> S] : k \in 0..n }

RECURSIVE SelectSeqBy(_, _)
\* the list comprehension [x for x in s if Test(x)]
SelectSeqBy(s, keep) ==
    IF s = << >> THEN << >>
    ELSE IF keep[Head(s)] THEN << Head(s) >> \o SelectSeqBy(Tail(s), keep)
         ELSE SelectSeqBy(Tail(s), keep)

----------------------------------------------------------------------------
(* Checkpoint file: json.dump({"urls": links}) and json.load(file)["urls"]. *)
(* The JSON text is a sequence of tokens: punctuation and string literals.   *)

JsonPunct(c) == [kind |-> "punct", text |-> << c >>]
JsonStr(s) == [kind |-> "string", text |-> s]

RECURSIVE JsonItems(_)
JsonItems(links) ==
    IF links = << >> THEN << >>
    ELSE IF Len(links) = 1 THEN << JsonStr(links[1]) >>
    ELSE << JsonStr(links[1]), JsonPunct(",") >> \o JsonItems(Tail(links))

JsonDump(links) ==
    << JsonPunct("{"), JsonStr(<< "urls" >>), JsonPunct(":"), JsonPunct("[") >>
        \o JsonItems(links) \o << JsonPunct("]"), JsonPunct("}") >>

\* the array of the member "urls": the literals between "[" and "]"
JsonLoadUrls(doc) ==
    LET body == SubSeq(doc, 5, Len(doc) - 2)
        n    == (Len(body) + 1) \div 2
    IN  [k \in 1..n |-> body[2 * k - 1].text]

FileName(key) == << "session", key, "_url.json" >>
FileNames == { FileName(k) : k \in Locations }

\* variant: an existing file is kept as it is
save_urls_keep_existing(fs, links, filename) ==
    [fs EXCEPT ![filename] = IF @.exists THEN @ ELSE FileOf(JsonDump(links))]

\* save_urls_to_json: open(filename, "w") truncates, then the dump is written
save_urls_to_json(fs, links, filename) ==
    [fs EXCEPT ![filename] = FileOf(JsonDump(links))]

\* variant: a missing file reads as an empty batch
LoadRaisesNever(fs, sheet_title) == FALSE

\* load_place_urls: open(filename, "r") raises when the file is missing
LoadRaises(fs, sheet_title) == ~fs[FileName(sheet_title)].exists
load_place_urls(fs, sheet_title) == JsonLoadUrls(fs[FileName(sheet_title)].text)

\* variant: the list comprehension has no condition
extract_every_url(anchors) == anchors

\* extract_place_urls: the hrefs that start with the detail-view scheme
extract_place_urls(anchors) ==
    SelectSeqBy(anchors, [h \in Hrefs |-> StartsWith(h, PlacePrefix)])

----------------------------------------------------------------------------
(* Field values.  A value of the record is None or a str; a str is the      *)
(* sequence of its parts and the empty str has no part.                      *)

None == [isNone |-> TRUE, parts |-> << >>]
Str(parts) == [isNone |-> FALSE, parts |-> parts]
EmptyStr == Str(<< >>)
NA == Str(<< "NA" >>)
FieldValues == { None, EmptyStr, NA, Str(<< "x" >>) }

\* bool(v) is False for None and for ""
Falsy(v) == v.isNone \/ v.parts = << >>

\* v or "NA"
OrNA(v) == IF Falsy(v) THEN NA ELSE v

\* what a call gives: a value, or an exception
Returned(v) == [raises |-> FALSE, value |-> v]
Raised == [raises |-> TRUE, value |-> None]

\* self.get_text(locator, timeout=1) on a detail page of this run
GetTextResults(varies, text) ==
    IF varies THEN { Returned(Str(text)), Returned(EmptyStr), Raised }
    ELSE { Returned(Str(text)) }

\* variant: the except clause re-raises
safe_execute_reraising(r) == r

\* safe_execute: the value of func, None when func raised
safe_execute(r) == IF r.raises THEN Returned(None) ELSE r

\* .replace("(", "").replace(")", "")
StripParens(parts) == SelectSeq(parts, LAMBDA c : c \notin {"(", ")"})

\* the lambda of lines 165-167
ReviewCountLambda(r) ==
    IF r.raises THEN r ELSE Returned(Str(StripParens(r.value.parts)))

\* variant: the star rating is not looked at
DefaultsToOneWithoutStar(count, star) == count = NA

\* line 172
DefaultsToOne(count, star) == count = NA /\ ~Falsy(star)

\* lines 163-173, from what safe_execute gave and the star rating
ReviewCount(value, star) ==
    LET count == OrNA(value)
    IN  IF DefaultsToOne(count, star) THEN Str(<< "1" >>) ELSE count

\* variant: only None is replaced
sanitize_none_only(data) ==
    [i \in DOMAIN data |-> IF data[i].isNone THEN NA ELSE data[i]]

\* sanitize_place_data, line 262
sanitize_place_data(data) ==
    [i \in DOMAIN data |->
        IF data[i].isNone \/ data[i] = EmptyStr THEN NA ELSE data[i]]

FieldNames == { "place_name", "place_type", "place_address", "place_website",
                "place_phone", "place_review_star", "place_review_count",
                "plus_code" }
\* the fields read with one get_text each and kept as read
ScalarFields == { "place_type", "place_address", "place_website", "place_phone",
                  "place_review_star", "plus_code" }
NoFields == [f \in FieldNames |-> None]

\* what the detail pages of the model show
PageText ==
    [place_name |-> << "Corner Bakery" >>, place_type |-> << "Bakery" >>,
     place_address |-> << "1 Main St" >>, place_website |-> << "corner.example" >>,
     place_phone |-> << "555-0100" >>, place_review_star |-> << "4.5" >>,
     plus_code |-> << "87G8+Q2" >>]
CountTexts == { << "(", "12", ")" >>, << "12" >>, << "(", ")" >> }

\* self.get_text(PLACE_REVIEW_PEOPLE_NUMBER, timeout=1)
CountResults(varies) ==
    IF varies THEN { Returned(Str(t)) : t \in CountTexts } \cup { Returned(EmptyStr), Raised }
    ELSE { Returned(Str(<< "(", "12", ")" >>)) }

\* variant: business type and place type change places
PlaceDataSwapped(fs, links, gmaps_link, business_type) ==
    << fs.place_name, fs.place_address, links.instagram, links.facebook,
       fs.place_website, fs.plus_code, Str(gmaps_link), links.other,
       fs.place_phone, fs.place_type, Str(<< business_type >>),
       fs.place_review_star, fs.place_review_count >>

\* lines 181-195
PlaceData(fs, links, gmaps_link, business_type) ==
    << fs.place_name, fs.place_address, links.instagram, links.facebook,
       fs.place_website, fs.plus_code, Str(gmaps_link), links.other,
       fs.place_phone, Str(<< business_type >>), fs.place_type,
       fs.place_review_star, fs.place_review_count >>

----------------------------------------------------------------------------
(* Overlay links *)

IgUrl == Str(<< "https://www.", "instagram.com", "/corner" >>)
FbUrl == Str(<< "https://www.", "facebook.com", "/corner" >>)
BothUrl == Str(<< "https://l.", "facebook.com", "/l.php?u=", "instagram.com", "/corner" >>)
SiteUrl == Str(<< "https://", "corner.example", "/" >>)
MenuUrl == Str(<< "https://", "menu.example", "/corner" >>)
AllDestUrls == { IgUrl, FbUrl, BothUrl, SiteUrl, MenuUrl }

\* sub in url
Contains(url, sub) == \E i \in DOMAIN url.parts : url.parts[i] = sub

Slots(ig, fb, others) == [instagram |-> ig, facebook |-> fb, other |-> others]

\* variant: two independent tests
ClassifyIndependently(slots, current_url) ==
    LET s1 == IF Contains(current_url, "instagram.com")
              THEN [slots EXCEPT !.instagram = current_url] ELSE slots
    IN  IF Contains(current_url, "facebook.com")
        THEN [s1 EXCEPT !.facebook = current_url]
        ELSE [s1 EXCEPT !.other = Append(@, current_url)]

\* lines 229-234
Classify(slots, current_url) ==
    IF Contains(current_url, "instagram.com")
    THEN [slots EXCEPT !.instagram = current_url]
    ELSE IF Contains(current_url, "facebook.com")
         THEN [slots EXCEPT !.facebook = current_url]
         ELSE [slots EXCEPT !.other = Append(@, current_url)]

RECURSIVE Join(_, _)
\* sep.join(list)
Join(sep, list) ==
    IF list = << >> THEN << >>
    ELSE IF Len(list) = 1 THEN list[1].parts
    ELSE list[1].parts \o << sep >> \o Join(sep, Tail(list))

\* variant: the other links are one string like the two slots, the last
\* address read replaces the one before
SocialLinksLastOther(slots) ==
    [instagram |-> slots.instagram, facebook |-> slots.facebook,
     other |-> IF slots.other = << >> THEN EmptyStr
               ELSE slots.other[Len(slots.other)]]

\* lines 250-254
SocialLinks(slots) ==
    [instagram |-> slots.instagram, facebook |-> slots.facebook,
     other |-> Str(Join(" ; ", slots.other))]

NoSocialLinks == [instagram |-> EmptyStr, facebook |-> EmptyStr, other |-> EmptyStr]

\* variant: the outer except clause returns what was found so far
LinksOnFailureKeepFound(slots) == SocialLinks(slots)

\* line 258
LinksOnFailure(slots) == NoSocialLinks

----------------------------------------------------------------------------
(* The sheet: the rows that values().get returns, up to the last row that   *)
(* has a value.                                                              *)

headers ==
    [i \in 1..13 |->
        Str(<< << "Name", "Address", "Instagram", "Facebook", "Website",
                  "Plus Code", "Maps Link", "Other Links", "Phone",
                  "Business Type", "Place Type", "Stars", "Reviews" >>[i] >>)]

NoSheet == [exists |-> FALSE, rows |-> << >>]
BlankRow == << >>

\* the grid after values are written to row i
SetRow(rows, i, row) ==
    [k \in 1..(IF i > Len(rows) THEN i ELSE Len(rows)) |->
        IF k = i THEN row ELSE IF k <= Len(rows) THEN rows[k] ELSE BlankRow]

\* write_headers: values().update of row 1
write_headers(sh, hdr, ok) ==
    IF ~sh.exists \/ ~ok THEN [sheet |-> sh, raises |-> TRUE]
    ELSE [sheet |-> [sh EXCEPT !.rows = SetRow(@, 1, hdr)], raises |-> FALSE]

\* variant: the record goes to the last row that has values
FirstIndLastRow(rows) == Len(rows)

\* "ind = len(rows) + 1": the row after the last one that has values
FirstInd(rows) == Len(rows) + 1

\* variant: the header row is written on every call
NeedsHeaderAlways(rows) == TRUE

\* "if not rows"
NeedsHeader(rows) == rows = << >>

(* write_values.  failAt: 0 every request returns, 1 a request before the   *)
(* first update raises, 2 the update of the data row raises.                 *)
write_values(sh, hdr, data_lst, failAt) ==
    IF ~sh.exists \/ failAt = 1 THEN [sheet |-> sh, raises |-> TRUE]
    ELSE LET rows == sh.rows
             withHdr == IF NeedsHeader(rows) THEN SetRow(rows, 1, hdr) ELSE rows
             ind == IF NeedsHeader(rows) THEN FirstInd(rows) + 1 ELSE FirstInd(rows)
         IN  IF failAt = 2
             THEN [sheet |-> [sh EXCEPT !.rows = withHdr], raises |-> TRUE]
             ELSE [sheet |-> [sh EXCEPT !.rows = SetRow(withHdr, ind, data_lst)],
                   raises |-> FALSE]

\* the outcomes a request to the spreadsheet service can have in this run
StoreAnswers(up) == IF up THEN BOOLEAN ELSE { FALSE }
WriteFaults(up) == IF up THEN 0..2 ELSE { 1 }

----------------------------------------------------------------------------
(* Session rotation: what the last refresh_proxy_session did *)

NoRotation == [happened |-> FALSE, quitOk |-> FALSE, canCreate |-> FALSE,
               created |-> FALSE]
Rotation(quitOk, canCreate, created) ==
    [happened |-> TRUE, quitOk |-> quitOk, canCreate |-> canCreate,
     created |-> created]

----------------------------------------------------------------------------
(* TestContact.safe_operation replaces GoogleMaps.safe_operation: its       *)
(* except clause returns, so the context manager suppresses the exception.  *)

\* variant: the safe_operation of GoogleMaps, whose except clause re-raises
SafeOperationReraises == FALSE

\* lines 64-77 of the test module: log, then return
SafeOperationSuppresses == TRUE

\* where control goes when the body of "with self.safe_operation(..)" raises
AfterSafeOperationRaise(continuePc) ==
    IF SafeOperationSuppresses THEN continuePc ELSE "aborted"

----------------------------------------------------------------------------
(* Browser session *)

FreshBrowser ==
    /\ tabs' = 0
    /\ origOpen' = TRUE
    /\ focus' = "orig"
    /\ inFrame' = FALSE

\* quit() of self.driver: the session it points to, if live, ends
QuitLive(alive, live) == IF alive THEN live - 1 ELSE live

----------------------------------------------------------------------------
(* Initial state: a TestContact instance before setUp, for one location of  *)
(* the parameterized test.  The session directory may hold the checkpoint   *)
(* of an earlier run.                                                       *)

OldBatch == << Href(PlacePrefix, "/A") >>

Init ==
    /\ pc = "setUp"
    /\ location \in Locations
    /\ sheet_identifier = "unset"
    /\ catIdx = 1
    /\ business = "unset"
    /\ \E own \in {NoFile, FileOf(JsonDump(OldBatch))} :
         files = [f \in FileNames |-> IF f = FileName(location) THEN own
                                      ELSE FileOf(JsonDump(OldBatch))]
    /\ urls = << >>
    /\ index = 0
    /\ rotations = 0
    /\ navigated = 0
    /\ raised = 0
    /\ handed = 0
    /\ driverAlive = FALSE
    /\ liveSessions = 0
    /\ tabs = 0
    /\ origOpen = TRUE
    /\ focus = "orig"
    /\ inFrame = FALSE
    /\ entriesLeft = 0
    /\ linksVia = "none"
    /\ wAttempt = 0
    /\ wOk = FALSE
    /\ lastCollect = "none"
    /\ collected = << >>
    /\ loadFailed = FALSE
    /\ entryCap = 1
    /\ pageVaries = FALSE
    /\ destUrls = { SiteUrl }
    /\ storeUp = FALSE
    /\ sheet = NoSheet
    /\ navs = 0
    /\ nameTries = 0
    /\ firstName = EmptyStr
    /\ fields = NoFields
    /\ count_text = None
    /\ instagram_link = EmptyStr
    /\ facebook_link = EmptyStr
    /\ other_links = << >>
    /\ social_links = NoSocialLinks
    /\ place_data = << >>
    /\ stored = 0
    /\ scroll_i = 0
    /\ result_ind = 0
    /\ scroll_ok = 0
    /\ feed = << >>
    /\ sheets = << >>
    /\ returned = << >>
    /\ headers_set \in BOOLEAN
    /\ sheets_api = FALSE
    /\ session_dir = FALSE
    /\ read_urls = << >>
    /\ session_data = << >>
    /\ sess_files = << >>
    /\ last_set = << >>
    /\ loaded = << >>
    /\ lastRotation = NoRotation

browserVars == << tabs, origOpen, focus, inFrame >>
sessionVars == << driverAlive, liveSessions >>
loopVars == << urls, index, rotations, navigated, raised, handed >>
linkVars == << entriesLeft, linksVia >>
writeVars == << wAttempt, wOk >>
envVars == << entryCap, pageVaries, destUrls, storeUp >>
nameVars == << navs, nameTries, firstName >>
slotVars == << instagram_link, facebook_link, other_links >>
recordVars == << fields, count_text, social_links, place_data >>
storeVars == << sheet, stored >>
sessVars == << session_data, sess_files, last_set, loaded >>
readVars == << read_urls >>
setupVars == << headers_set, sheets_api, session_dir >>
createVars == << sheets, returned >>
feedVars == << feed >>
scrollVars == << scroll_i, result_ind, scroll_ok >>

----------------------------------------------------------------------------
(* TestContact.setUp -> GoogleMaps.setUp: BaseCase.setUp starts the default *)
(* browser, change_proxy starts another one and switches self.driver to it. *)

\* variant: setUp does not look for the attribute
HeadersMissingNever(has) == FALSE

\* lines 20-22: "if not hasattr(self, 'headers')", the first statement
HeadersMissing(has) == ~has

SetUp ==
    /\ pc = "setUp"
    /\ IF HeadersMissing(headers_set)
       THEN \* raise ValueError: it leaves setUp of GoogleMaps and, re-raised,
            \* setUp of TestContact; the test does not run
            /\ pc' = "aborted"
            /\ UNCHANGED << sessionVars, browserVars, sheet_identifier,
                            sheets_api, session_dir >>
       ELSE /\ sheets_api' = TRUE
            /\ session_dir' = TRUE
            /\ \E newOk \in BOOLEAN :
                IF newOk
                THEN /\ liveSessions' = 2
                     /\ driverAlive' = TRUE
                     /\ FreshBrowser
                     /\ pc' = "test_contact"
                     /\ sheet_identifier' = "Sheet1"
                ELSE /\ liveSessions' = 1
                     /\ driverAlive' = TRUE
                     /\ FreshBrowser
                     /\ pc' = AfterSafeOperationRaise("test_contact")
                     /\ sheet_identifier' = IF SafeOperationSuppresses THEN "Sheet1"
                                            ELSE sheet_identifier
    /\ UNCHANGED << location, catIdx, business, files, loopVars, linkVars,
                    writeVars, lastCollect, collected, loadFailed, envVars, sessVars, readVars,
                    headers_set, createVars, feedVars, scrollVars,
                    nameVars, slotVars, recordVars, storeVars, lastRotation >>

(* test_contact, lines 86-99: the sheet identifier becomes the location.    *)
TestContactBegin ==
    /\ pc = "test_contact"
    /\ sheet_identifier' = location
    /\ \E createOk \in StoreAnswers(storeUp), headersOk \in StoreAnswers(storeUp) :
         \* create_sheet returns None when it failed; increase_rows never
         \* raises; a raise of write_headers is suppressed by safe_operation
         LET made == IF createOk THEN [sheet EXCEPT !.exists = TRUE] ELSE sheet
             w    == write_headers(made, headers, headersOk)
         IN  /\ sheet' = w.sheet
             /\ pc' = IF w.raises THEN AfterSafeOperationRaise("gmaps_input")
                      ELSE "gmaps_input"
    /\ catIdx' = 1
    /\ UNCHANGED << location, business, files, loopVars, sessionVars,
                    browserVars, linkVars, writeVars, lastCollect, collected, loadFailed,
                    envVars, sessVars, readVars, setupVars, createVars, feedVars, scrollVars, nameVars, slotVars, recordVars, stored, lastRotation >>

----------------------------------------------------------------------------
(* gmaps_input(business, location, self.sheet_identifier)                   *)

\* the driver can answer a call made on the focused tab
Responsive(alive, orig, foc) == alive /\ orig /\ foc # "closed"

\* variant: url_location.touch() runs before the test for no results
FilesAfterNoResultsTouched(fs, url_identifier) ==
    [fs EXCEPT ![FileName(url_identifier)] = IF @.exists THEN @ ELSE FileOf(<< >>)]

\* the checkpoint files after gmaps_input found no place url: it raises
\* before the file is touched
FilesAfterNoResults(fs, url_identifier) == fs

GmapsInput ==
    /\ pc = "gmaps_input"
    /\ \/ \* self.open or self.type raises
          /\ \E failAt \in {"open", "type"} :
                inFrame' = IF failAt = "type" THEN FALSE ELSE inFrame
          /\ lastCollect' = "error"
          /\ collected' = << >>
          /\ feed' = << >>
          /\ files' = files
          /\ pc' = AfterSafeOperationRaise("get_details")
       \/ \* the search ran: the feed shows some anchors
          /\ Responsive(driverAlive, origOpen, focus)
          /\ inFrame' = FALSE
          /\ \E anchors \in SeqsUpTo(Hrefs, MaxAnchors) :
                LET all_result_urls == extract_place_urls(anchors) IN
                /\ collected' = all_result_urls
                /\ feed' = anchors
                /\ IF all_result_urls = << >>
                   THEN /\ lastCollect' = "zero"
                        /\ files' = FilesAfterNoResults(files, sheet_identifier)
                        /\ pc' = AfterSafeOperationRaise("get_details")
                   ELSE /\ lastCollect' = "saved"
                        /\ files' = save_urls_to_json(files, all_result_urls,
                                                      FileName(sheet_identifier))
                        /\ pc' = "get_details"
    /\ UNCHANGED << location, sheet_identifier, catIdx, business, loopVars,
                    sessionVars, tabs, origOpen, focus, linkVars, writeVars,
                    loadFailed, envVars, sessVars, readVars, setupVars, createVars, scrollVars,
                    nameVars, slotVars, recordVars, storeVars, lastRotation >>

----------------------------------------------------------------------------
(* get_details(sheet_title = self.sheet_identifier, business)               *)

GetDetailsLoad ==
    /\ pc = "get_details"
    /\ business' = business_categories[catIdx]
    /\ index' = 0
    /\ rotations' = 0
    /\ navigated' = 0
    /\ raised' = 0
    /\ handed' = 0
    /\ feed' = << >>
    /\ IF LoadRaises(files, sheet_identifier)
       THEN \* line 123 is outside the try: the error leaves get_details and
            \* reaches "with self.safe_operation" of test_contact
            /\ loadFailed' = TRUE
            /\ urls' = << >>
            /\ lastCollect' = "none"
            /\ collected' = << >>
            /\ pc' = AfterSafeOperationRaise("quit_driver")
       ELSE /\ loadFailed' = loadFailed
            /\ urls' = load_place_urls(files, sheet_identifier)
            /\ UNCHANGED << lastCollect, collected >>
            /\ pc' = "item"
    /\ UNCHANGED << location, sheet_identifier, catIdx, files, sessionVars,
                    browserVars, linkVars, writeVars, envVars, sessVars, readVars, setupVars, createVars, scrollVars,
                    nameVars, slotVars, recordVars, storeVars, lastRotation >>

\* variant: the test is made on the index instead of index + 1
RotationDueOnIndex(i) == i % RotateEvery = 0

\* line 127
RotationDue(i) == (i + 1) % RotateEvery = 0

(* Top of the loop body: refresh_proxy_session when due.  quit, change_proxy *)
(* and open run inside one try: a raise of any of them skips the rest and is *)
(* logged.                                                                   *)
ItemBegin ==
    /\ pc = "item"
    /\ index < Len(urls)
    /\ IF RotationDue(index)
       THEN /\ rotations' = rotations + 1
            /\ \E quitOk \in BOOLEAN, newOk \in BOOLEAN :
                 /\ lastRotation' = Rotation(quitOk, newOk, quitOk /\ newOk)
                 /\ IF ~quitOk
                    THEN UNCHANGED << sessionVars, browserVars >>
                    ELSE IF newOk
                         THEN /\ driverAlive' = TRUE
                              /\ liveSessions' = QuitLive(driverAlive, liveSessions) + 1
                              /\ FreshBrowser
                         ELSE /\ driverAlive' = FALSE
                              /\ liveSessions' = QuitLive(driverAlive, liveSessions)
                              /\ UNCHANGED browserVars
       ELSE /\ lastRotation' = NoRotation
            /\ UNCHANGED << rotations, sessionVars, browserVars >>
    /\ navs' = 0
    /\ nameTries' = 0
    /\ firstName' = EmptyStr
    /\ pc' = "open"
    /\ UNCHANGED << location, sheet_identifier, catIdx, business, files, urls,
                    index, navigated, raised, handed, linkVars, writeVars,
                    lastCollect, collected, loadFailed, envVars, sessVars, readVars, setupVars, createVars, feedVars, scrollVars,
                    slotVars, recordVars, storeVars >>

\* the loop is over: get_details returns, its locals and the counts of
\* this call are gone
GetDetailsReturn ==
    /\ pc = "item"
    /\ index = Len(urls)
    /\ pc' = "quit_driver"
    /\ urls' = << >>
    /\ index' = 0
    /\ rotations' = 0
    /\ navigated' = 0
    /\ raised' = 0
    /\ handed' = 0
    /\ lastCollect' = "none"
    /\ collected' = << >>
    /\ navs' = 0
    /\ nameTries' = 0
    /\ firstName' = EmptyStr
    /\ lastRotation' = NoRotation
    /\ UNCHANGED << location, sheet_identifier, catIdx, business, files,
                    sessionVars, browserVars, linkVars, writeVars,
                    loadFailed, envVars, sessVars, readVars, setupVars, createVars, feedVars, scrollVars, slotVars, recordVars, storeVars >>

\* variant: the except clause re-raises and get_details ends
ItemExceptPcAbort == "aborted"

\* line 201: the except clause of the loop body logs, the loop goes on
ItemExceptPc == "item"

\* the loop body raised at the current item
ItemExcept ==
    /\ raised' = raised + 1
    /\ index' = index + 1
    /\ pc' = ItemExceptPc

\* line 130: self.open(gmaps_link)
ItemOpen ==
    /\ pc = "open"
    /\ navigated' = navigated + 1
    /\ navs' = 1
    /\ lastRotation' = NoRotation
    /\ \/ /\ Responsive(driverAlive, origOpen, focus)
          /\ inFrame' = FALSE
          /\ pc' = "extract"
          /\ UNCHANGED << raised, index >>
       \/ /\ ItemExcept
          /\ UNCHANGED inFrame
    /\ UNCHANGED << location, sheet_identifier, catIdx, business, files, urls,
                    rotations, handed, sessionVars, tabs, origOpen, focus,
                    linkVars, writeVars, lastCollect, collected, loadFailed, envVars, sessVars, readVars, setupVars, createVars, feedVars, scrollVars,
                    nameTries, firstName, slotVars, recordVars, storeVars >>

\* variant: the name is read once
NameRetryNever(place_name) == FALSE

\* line 138
NameRetryDue(place_name) == place_name = NA

(* lines 148-175: the other fields, each through safe_execute.  name is     *)
(* what the last safe_execute of PLACE_NAME gave.                            *)
ExtractFields(name) ==
    \E t \in GetTextResults(pageVaries, PageText.place_type),
       a \in GetTextResults(pageVaries, PageText.place_address),
       w \in GetTextResults(pageVaries, PageText.place_website),
       p \in GetTextResults(pageVaries, PageText.place_phone),
       st \in GetTextResults(pageVaries, PageText.place_review_star),
       c \in CountResults(pageVaries),
       pl \in GetTextResults(pageVaries, PageText.plus_code) :
        LET got == [place_name |-> name,
                    place_type |-> safe_execute(t),
                    place_address |-> safe_execute(a),
                    place_website |-> safe_execute(w),
                    place_phone |-> safe_execute(p),
                    place_review_star |-> safe_execute(st),
                    place_review_count |-> safe_execute(ReviewCountLambda(c)),
                    plus_code |-> safe_execute(pl)]
        IN  IF \E f \in FieldNames : got[f].raises
            THEN /\ ItemExcept
                 /\ UNCHANGED << fields, count_text >>
            ELSE /\ count_text' = c.value
                 /\ fields' =
                      [f \in FieldNames |->
                          IF f = "place_name" THEN OrNA(got[f].value)
                          ELSE IF f = "place_review_count"
                               THEN ReviewCount(got[f].value,
                                                got.place_review_star.value)
                          ELSE got[f].value]
                 /\ pc' = "links"
                 /\ UNCHANGED << raised, index >>

(* lines 134-175: the name, with one re-navigation when it is "NA", then    *)
(* the other fields through safe_execute, which never raises.               *)
ItemExtract ==
    /\ pc = "extract"
    /\ \E name1 \in GetTextResults(TRUE, PageText.place_name) :
         LET got1 == safe_execute(name1) IN
         IF got1.raises
         THEN /\ ItemExcept
              /\ nameTries' = 1
              /\ UNCHANGED << navs, firstName, fields, count_text >>
         ELSE /\ firstName' = OrNA(got1.value)
              /\ IF NameRetryDue(OrNA(got1.value))
                 THEN \* lines 139-145: open again, wait, scroll, read again
                      /\ navs' = navs + 1
                      /\ \/ /\ ItemExcept
                            /\ nameTries' = 1
                            /\ UNCHANGED << fields, count_text >>
                         \/ \E name2 \in GetTextResults(pageVaries, PageText.place_name) :
                              /\ nameTries' = 2
                              /\ ExtractFields(safe_execute(name2))
                 ELSE /\ navs' = navs
                      /\ nameTries' = 1
                      /\ ExtractFields(got1)
    /\ UNCHANGED << location, sheet_identifier, catIdx, business, files, urls,
                    rotations, navigated, handed, sessionVars, browserVars,
                    linkVars, writeVars, lastCollect, collected, loadFailed, envVars, sessVars, readVars, setupVars, createVars, feedVars, scrollVars,
                    slotVars, social_links, place_data, storeVars, lastRotation >>

----------------------------------------------------------------------------
(* get_social_media_links                                                   *)

Browser(t, o, f, fr) == [tabs |-> t, origOpen |-> o, focus |-> f, inFrame |-> fr]

\* some window of the session is open
HasWindow(b) == b.origOpen \/ b.tabs > 0

\* window 0 is the first tab while it is open, else the oldest entry tab
SwitchToWindow0(b) ==
    [b EXCEPT !.focus = IF b.origOpen THEN "orig" ELSE "entry", !.inFrame = FALSE]

(* The calls of one loop iteration, lines 223-241:                          *)
(*   1 element.click()            2 switch_to_newest_window()               *)
(*   3 get_current_url()          4 driver.close()                          *)
(*   5 switch_to_default_window() 6 switch_to_frame("//iframe")             *)
EntryStep(k, b, newTab) ==
    CASE k = 1 -> [b EXCEPT !.tabs = IF newTab THEN b.tabs + 1 ELSE b.tabs]
      [] k = 2 -> [b EXCEPT !.focus = IF b.tabs > 0 THEN "entry" ELSE "orig",
                            !.inFrame = FALSE]
      [] k = 3 -> b
      [] k = 4 -> IF b.focus = "entry"
                  THEN [b EXCEPT !.tabs = b.tabs - 1, !.focus = "closed"]
                  ELSE [b EXCEPT !.origOpen = FALSE, !.focus = "closed"]
      [] k = 5 -> SwitchToWindow0(b)
      [] k = 6 -> [b EXCEPT !.inFrame = TRUE]

\* a call cannot return when the window it needs is gone
EntryStepMustRaise(k, b) ==
    IF k \in {2, 5} THEN ~HasWindow(b)
    ELSE b.focus = "closed" \/ (b.focus = "orig" /\ ~b.origOpen)

RECURSIVE RunEntry(_, _, _, _)
\* runs the calls from k on; the first that raises ends the try block
RunEntry(k, b, newTab, failAt) ==
    IF k > 6 THEN [b |-> b, raisedAt |-> 0]
    ELSE IF failAt = k \/ EntryStepMustRaise(k, b) THEN [b |-> b, raisedAt |-> k]
    ELSE RunEntry(k + 1, EntryStep(k, b, newTab), newTab, failAt)

(* The except clause, lines 243-248: switch_to_window(0), then              *)
(* switch_to_frame("//iframe"), then continue.  A raise in it leaves the    *)
(* loop and reaches the outer except clause.                                *)
RecoverFocus(b) == SwitchToWindow0(b)

RunRecovery(b, recFailAt) ==
    IF recFailAt = 1 \/ ~HasWindow(b) THEN [b |-> b, raisedAt |-> 1]
    ELSE LET b1 == RecoverFocus(b) IN
         IF recFailAt = 2 \/ EntryStepMustRaise(6, b1) THEN [b |-> b1, raisedAt |-> 2]
         ELSE [b |-> [b1 EXCEPT !.inFrame = TRUE], raisedAt |-> 0]

(* What get_current_url gives after switch_to_newest_window: the address   *)
(* the entry led to when an entry tab is open, else the address of the      *)
(* detail page.  b0 is the browser when the iteration began.                 *)
CurrentUrl(b0, newTab, dest, gmaps_link) ==
    IF b0.tabs > 0 \/ newTab THEN dest ELSE Str(gmaps_link)

\* get_social_media_links returns: the record is compiled, sanitized and
\* handed to write_place_data
LinksReturnTo(via, slots) ==
    LET links == IF via = "failed" THEN LinksOnFailure(slots) ELSE SocialLinks(slots)
    IN  /\ linksVia' = via
        /\ entriesLeft' = 0
        /\ instagram_link' = EmptyStr
        /\ facebook_link' = EmptyStr
        /\ other_links' = << >>
        /\ read_urls' = << >>
        /\ social_links' = links
        /\ place_data' = sanitize_place_data(
                             PlaceData(fields, links, urls[index + 1], business))
        /\ handed' = handed + 1
        /\ wAttempt' = 0
        /\ wOk' = FALSE
        /\ pc' = "write"

\* lines 206-215: scroll, enter the frame, find the entries
LinksEnter ==
    /\ pc = "links"
    /\ \/ \* switch_to_frame raises
          /\ LinksReturnTo("failed", Slots(EmptyStr, EmptyStr, << >>))
          /\ UNCHANGED inFrame
       \/ \* find_elements raises
          /\ inFrame' = TRUE
          /\ LinksReturnTo("failed", Slots(EmptyStr, EmptyStr, << >>))
       \/ /\ Responsive(driverAlive, origOpen, focus)
          /\ inFrame' = TRUE
          /\ \E n \in 0..entryCap : entriesLeft' = n
          /\ instagram_link' = EmptyStr
          /\ facebook_link' = EmptyStr
          /\ other_links' = << >>
          /\ read_urls' = << >>
          /\ pc' = "entry"
          /\ UNCHANGED << linksVia, handed, writeVars, social_links, place_data >>
    /\ UNCHANGED << location, sheet_identifier, catIdx, business, files, urls,
                    index, rotations, navigated, raised, sessionVars, tabs,
                    origOpen, focus, lastCollect, collected, loadFailed, envVars, sessVars, setupVars, createVars, feedVars, scrollVars,
                    nameVars, fields, count_text, storeVars, lastRotation >>

\* one iteration of "for element in elements"
LinksEntry ==
    /\ pc = "entry"
    /\ entriesLeft > 0
    /\ \E newTab \in BOOLEAN, failAt \in 0..6, recFailAt \in 0..2, dest \in destUrls :
         LET b0  == Browser(tabs, origOpen, focus, inFrame)
             try == RunEntry(1, b0, newTab, failAt)
             rec == IF try.raisedAt = 0 THEN try ELSE RunRecovery(try.b, recFailAt)
             \* get_current_url returned: lines 229-234 ran
             read == try.raisedAt = 0 \/ try.raisedAt > 3
             current_url == CurrentUrl(b0, newTab, dest, urls[index + 1])
             old == Slots(instagram_link, facebook_link, other_links)
             new == IF read THEN Classify(old, current_url) ELSE old
         IN  /\ try.raisedAt = 0 => recFailAt = 0
             /\ tabs' = rec.b.tabs
             /\ origOpen' = rec.b.origOpen
             /\ focus' = rec.b.focus
             /\ inFrame' = rec.b.inFrame
             /\ IF rec.raisedAt = 0
                THEN /\ entriesLeft' = entriesLeft - 1
                     /\ instagram_link' = new.instagram
                     /\ facebook_link' = new.facebook
                     /\ other_links' = new.other
                     /\ read_urls' = IF read THEN Append(read_urls, current_url)
                                     ELSE read_urls
                     /\ pc' = "entry"
                     /\ UNCHANGED << linksVia, handed, writeVars, social_links,
                                     place_data >>
                ELSE LinksReturnTo("failed", new)
    /\ UNCHANGED << location, sheet_identifier, catIdx, business, files, urls,
                    index, rotations, navigated, raised, sessionVars,
                    lastCollect, collected, loadFailed, envVars, sessVars, setupVars, createVars, feedVars, scrollVars,
                    nameVars, fields, count_text, storeVars, lastRotation >>

\* lines 250-254: the loop is over
LinksReturn ==
    /\ pc = "entry"
    /\ entriesLeft = 0
    /\ LinksReturnTo("normal", Slots(instagram_link, facebook_link, other_links))
    /\ UNCHANGED << location, sheet_identifier, catIdx, business, files, urls,
                    index, rotations, navigated, raised, sessionVars,
                    browserVars, lastCollect, collected, loadFailed, envVars, sessVars, setupVars, createVars, feedVars, scrollVars,
                    nameVars, fields, count_text, storeVars, lastRotation >>

----------------------------------------------------------------------------
(* write_place_data: one iteration of "for attempt in range(max_retries)"   *)

\* variant: the break is missing
WriteLoopEndsNoBreak(ok, attempt) == attempt = max_retries - 1

\* lines 288-290: break after a write that returned; no iteration follows
\* the last one
WriteLoopEnds(ok, attempt) == ok \/ attempt = max_retries - 1

WriteAttempt ==
    /\ pc = "write"
    /\ wAttempt < max_retries
    /\ \E failAt \in WriteFaults(storeUp) :
         LET w  == write_values(sheet, headers, place_data, failAt)
             ok == ~w.raises
         IN  /\ sheet' = w.sheet
             /\ stored' = IF ok THEN stored + 1 ELSE stored
             /\ IF WriteLoopEnds(ok, wAttempt)
                THEN \* break, or the last attempt failed: write_place_data
                     \* returns and the loop body is done
                     /\ index' = index + 1
                     /\ pc' = "item"
                     /\ wAttempt' = 0
                     /\ wOk' = FALSE
                     /\ linksVia' = "none"
                     /\ fields' = NoFields
                     /\ count_text' = None
                     /\ social_links' = NoSocialLinks
                     /\ place_data' = << >>
                ELSE /\ index' = index
                     /\ pc' = "write"
                     /\ wAttempt' = wAttempt + 1
                     /\ wOk' = ok
                     /\ linksVia' = linksVia
                     /\ UNCHANGED recordVars
    /\ UNCHANGED << location, sheet_identifier, catIdx, business, files, urls,
                    rotations, navigated, raised, handed, sessionVars,
                    browserVars, entriesLeft, lastCollect, collected, loadFailed, envVars, sessVars, readVars, setupVars, createVars, feedVars, scrollVars,
                    nameVars, slotVars, lastRotation >>

----------------------------------------------------------------------------
(* test_contact, lines 110-118: the session is replaced after each category *)

CategoryQuit ==
    /\ pc = "quit_driver"
    /\ \E quitOk \in BOOLEAN :
         IF quitOk
         THEN /\ driverAlive' = FALSE
              /\ liveSessions' = QuitLive(driverAlive, liveSessions)
         ELSE UNCHANGED sessionVars
    /\ pc' = "proxy_change"
    /\ UNCHANGED << location, sheet_identifier, catIdx, business, files,
                    loopVars, browserVars, linkVars, writeVars, lastCollect,
                    collected, loadFailed, envVars, sessVars, readVars, setupVars, createVars, feedVars, scrollVars,
                    nameVars, slotVars, recordVars, storeVars, lastRotation >>

\* the for loop of line 101 moves on
NextCategoryPc == IF catIdx < Len(business_categories) THEN "gmaps_input" ELSE "done"

CategoryProxyChange ==
    /\ pc = "proxy_change"
    /\ \E newOk \in BOOLEAN :
         IF newOk
         THEN /\ driverAlive' = TRUE
              /\ liveSessions' = liveSessions + 1
              /\ FreshBrowser
              /\ pc' = NextCategoryPc
         ELSE /\ UNCHANGED << sessionVars, browserVars >>
              /\ pc' = AfterSafeOperationRaise(NextCategoryPc)
    /\ catIdx' = IF pc' = "gmaps_input" THEN catIdx + 1 ELSE catIdx
    /\ UNCHANGED << location, sheet_identifier, business, files, loopVars,
                    linkVars, writeVars, lastCollect, collected, loadFailed, envVars, sessVars, readVars, setupVars, createVars, feedVars, scrollVars,
                    nameVars, slotVars, recordVars, storeVars, lastRotation >>

\* teardown_method: self.driver.quit(), a failure is logged
Teardown ==
    /\ pc = "done"
    /\ \E quitOk \in BOOLEAN :
         IF quitOk
         THEN /\ driverAlive' = FALSE
              /\ liveSessions' = QuitLive(driverAlive, liveSessions)
         ELSE UNCHANGED sessionVars
    /\ pc' = "end"
    /\ UNCHANGED << location, sheet_identifier, catIdx, business, files,
                    loopVars, browserVars, linkVars, writeVars, lastCollect,
                    collected, loadFailed, envVars, sessVars, readVars, setupVars, createVars, feedVars, scrollVars,
                    nameVars, slotVars, recordVars, storeVars, lastRotation >>

----------------------------------------------------------------------------
Next ==
    \/ SetUp
    \/ TestContactBegin
    \/ GmapsInput
    \/ GetDetailsLoad
    \/ ItemBegin
    \/ GetDetailsReturn
    \/ ItemOpen
    \/ ItemExtract
    \/ LinksEnter
    \/ LinksEntry
    \/ LinksReturn
    \/ WriteAttempt
    \/ CategoryQuit
    \/ CategoryProxyChange
    \/ Teardown

Spec == Init /\ [][Next]_vars

----------------------------------------------------------------------------
(* The item loop on long batches: get_details is entered with the batch of  *)
(* a collection that saved m identifiers (the feed may repeat an address),  *)
(* on detail pages whose overlay shows no entry.                            *)

LongBatch(m) == [k \in 1..m |-> Href(PlacePrefix, "/A")]

InitItems ==
    /\ pc = "get_details"
    /\ location \in Locations
    /\ sheet_identifier = location
    /\ catIdx = 1
    /\ business = "unset"
    /\ \E m \in 1..MaxBatch :
         /\ collected = LongBatch(m)
         /\ files = [f \in FileNames |-> IF f = FileName(location)
                                         THEN FileOf(JsonDump(LongBatch(m)))
                                         ELSE FileOf(JsonDump(OldBatch))]
    /\ urls = << >>
    /\ index = 0
    /\ rotations = 0
    /\ navigated = 0
    /\ raised = 0
    /\ handed = 0
    /\ driverAlive = TRUE
    /\ liveSessions \in {1, 2}
    /\ tabs = 0
    /\ origOpen = TRUE
    /\ focus = "orig"
    /\ inFrame = FALSE
    /\ entriesLeft = 0
    /\ linksVia = "none"
    /\ wAttempt = 0
    /\ wOk = FALSE
    /\ lastCollect = "saved"
    /\ loadFailed = FALSE
    /\ entryCap = 0
    /\ pageVaries = FALSE
    /\ destUrls = { SiteUrl }
    /\ storeUp = FALSE
    /\ sheet = NoSheet
    /\ navs = 0
    /\ nameTries = 0
    /\ firstName = EmptyStr
    /\ fields = NoFields
    /\ count_text = None
    /\ instagram_link = EmptyStr
    /\ facebook_link = EmptyStr
    /\ other_links = << >>
    /\ social_links = NoSocialLinks
    /\ place_data = << >>
    /\ stored = 0
    /\ scroll_i = 0
    /\ result_ind = 0
    /\ scroll_ok = 0
    /\ feed = << >>
    /\ sheets = << >>
    /\ returned = << >>
    /\ headers_set = TRUE
    /\ sheets_api = TRUE
    /\ session_dir = TRUE
    /\ read_urls = << >>
    /\ session_data = << >>
    /\ sess_files = << >>
    /\ last_set = << >>
    /\ loaded = << >>
    /\ lastRotation = NoRotation

NextItems ==
    \/ GetDetailsLoad
    \/ ItemBegin
    \/ GetDetailsReturn
    \/ ItemOpen
    \/ ItemExtract
    \/ LinksEnter
    \/ LinksReturn
    \/ WriteAttempt

SpecItems == InitItems /\ [][NextItems]_vars

----------------------------------------------------------------------------
(* The link resolver: get_details is entered with a batch of one item whose *)
(* overlay shows up to MaxEntries entries, leading to any of AllDestUrls.    *)

InitLinks ==
    /\ pc = "get_details"
    /\ location \in Locations
    /\ sheet_identifier = location
    /\ catIdx = 1
    /\ business = "unset"
    /\ collected = LongBatch(1)
    /\ files = [f \in FileNames |-> IF f = FileName(location)
                                     THEN FileOf(JsonDump(LongBatch(1)))
                                     ELSE FileOf(JsonDump(OldBatch))]
    /\ urls = << >>
    /\ index = 0
    /\ rotations = 0
    /\ navigated = 0
    /\ raised = 0
    /\ handed = 0
    /\ driverAlive = TRUE
    /\ liveSessions \in {1, 2}
    /\ tabs = 0
    /\ origOpen = TRUE
    /\ focus = "orig"
    /\ inFrame = FALSE
    /\ entriesLeft = 0
    /\ linksVia = "none"
    /\ wAttempt = 0
    /\ wOk = FALSE
    /\ lastCollect = "saved"
    /\ loadFailed = FALSE
    /\ entryCap = MaxEntries
    /\ pageVaries = FALSE
    /\ destUrls = AllDestUrls
    /\ storeUp = FALSE
    /\ sheet = NoSheet
    /\ navs = 0
    /\ nameTries = 0
    /\ firstName = EmptyStr
    /\ fields = NoFields
    /\ count_text = None
    /\ instagram_link = EmptyStr
    /\ facebook_link = EmptyStr
    /\ other_links = << >>
    /\ social_links = NoSocialLinks
    /\ place_data = << >>
    /\ stored = 0
    /\ scroll_i = 0
    /\ result_ind = 0
    /\ scroll_ok = 0
    /\ feed = << >>
    /\ sheets = << >>
    /\ returned = << >>
    /\ headers_set = TRUE
    /\ sheets_api = TRUE
    /\ session_dir = TRUE
    /\ read_urls = << >>
    /\ session_data = << >>
    /\ sess_files = << >>
    /\ last_set = << >>
    /\ loaded = << >>
    /\ lastRotation = NoRotation

NextLinks ==
    \/ GetDetailsLoad
    \/ ItemBegin
    \/ GetDetailsReturn
    \/ ItemOpen
    \/ ItemExtract
    \/ LinksEnter
    \/ LinksEntry
    \/ LinksReturn
    \/ WriteAttempt

SpecLinks == InitLinks /\ [][NextLinks]_vars

----------------------------------------------------------------------------
(* The run of test_contact against a spreadsheet service that answers: the  *)
(* sheet of the location is absent or empty when the test begins, and the   *)
(* detail pages show no overlay entry.                                       *)

InitSheet ==
    /\ pc = "test_contact"
    /\ location \in Locations
    /\ sheet_identifier = "Sheet1"
    /\ catIdx = 1
    /\ business = "unset"
    /\ files = [f \in FileNames |-> IF f = FileName(location) THEN NoFile
                                     ELSE FileOf(JsonDump(OldBatch))]
    /\ urls = << >>
    /\ index = 0
    /\ rotations = 0
    /\ navigated = 0
    /\ raised = 0
    /\ handed = 0
    /\ driverAlive = TRUE
    /\ liveSessions = 2
    /\ tabs = 0
    /\ origOpen = TRUE
    /\ focus = "orig"
    /\ inFrame = FALSE
    /\ entriesLeft = 0
    /\ linksVia = "none"
    /\ wAttempt = 0
    /\ wOk = FALSE
    /\ lastCollect = "none"
    /\ collected = << >>
    /\ loadFailed = FALSE
    /\ entryCap = 0
    /\ pageVaries = FALSE
    /\ destUrls = { SiteUrl }
    /\ storeUp = TRUE
    /\ sheet \in { NoSheet, [exists |-> TRUE, rows |-> << >>] }
    /\ navs = 0
    /\ nameTries = 0
    /\ firstName = EmptyStr
    /\ fields = NoFields
    /\ count_text = None
    /\ instagram_link = EmptyStr
    /\ facebook_link = EmptyStr
    /\ other_links = << >>
    /\ social_links = NoSocialLinks
    /\ place_data = << >>
    /\ stored = 0
    /\ scroll_i = 0
    /\ result_ind = 0
    /\ scroll_ok = 0
    /\ feed = << >>
    /\ sheets = << >>
    /\ returned = << >>
    /\ headers_set = TRUE
    /\ sheets_api = TRUE
    /\ session_dir = TRUE
    /\ read_urls = << >>
    /\ session_data = << >>
    /\ sess_files = << >>
    /\ last_set = << >>
    /\ loaded = << >>
    /\ lastRotation = NoRotation

NextSheet ==
    \/ TestContactBegin
    \/ GmapsInput
    \/ GetDetailsLoad
    \/ ItemBegin
    \/ GetDetailsReturn
    \/ ItemOpen
    \/ ItemExtract
    \/ LinksEnter
    \/ LinksReturn
    \/ WriteAttempt
    \/ CategoryQuit
    \/ CategoryProxyChange
    \/ Teardown

SpecSheet == InitSheet /\ [][NextSheet]_vars

----------------------------------------------------------------------------
(* One item on detail pages whose fields may be missing or empty: a batch   *)
(* of one identifier, a sheet that holds its header row, a spreadsheet      *)
(* service that answers or raises.                                           *)

InitFields ==
    /\ pc = "get_details"
    /\ location = "Springfield"
    /\ sheet_identifier = location
    /\ catIdx \in 1..Len(business_categories)
    /\ business = "unset"
    /\ collected = LongBatch(1)
    /\ files = [f \in FileNames |-> IF f = FileName(location)
                                     THEN FileOf(JsonDump(LongBatch(1)))
                                     ELSE FileOf(JsonDump(OldBatch))]
    /\ urls = << >>
    /\ index = 0
    /\ rotations = 0
    /\ navigated = 0
    /\ raised = 0
    /\ handed = 0
    /\ driverAlive = TRUE
    /\ liveSessions = 2
    /\ tabs = 0
    /\ origOpen = TRUE
    /\ focus = "orig"
    /\ inFrame = FALSE
    /\ entriesLeft = 0
    /\ linksVia = "none"
    /\ wAttempt = 0
    /\ wOk = FALSE
    /\ lastCollect = "saved"
    /\ loadFailed = FALSE
    /\ entryCap = 0
    /\ pageVaries = TRUE
    /\ destUrls = { SiteUrl }
    /\ storeUp = TRUE
    /\ sheet = [exists |-> TRUE, rows |-> << headers >>]
    /\ navs = 0
    /\ nameTries = 0
    /\ firstName = EmptyStr
    /\ fields = NoFields
    /\ count_text = None
    /\ instagram_link = EmptyStr
    /\ facebook_link = EmptyStr
    /\ other_links = << >>
    /\ social_links = NoSocialLinks
    /\ place_data = << >>
    /\ stored = 0
    /\ scroll_i = 0
    /\ result_ind = 0
    /\ scroll_ok = 0
    /\ feed = << >>
    /\ sheets = << >>
    /\ returned = << >>
    /\ headers_set = TRUE
    /\ sheets_api = TRUE
    /\ session_dir = TRUE
    /\ read_urls = << >>
    /\ session_data = << >>
    /\ sess_files = << >>
    /\ last_set = << >>
    /\ loaded = << >>
    /\ lastRotation = NoRotation

NextFields ==
    \/ GetDetailsLoad
    \/ ItemBegin
    \/ GetDetailsReturn
    \/ ItemOpen
    \/ ItemExtract
    \/ LinksEnter
    \/ LinksReturn
    \/ WriteAttempt

SpecFields == InitFields /\ [][NextFields]_vars

----------------------------------------------------------------------------
(* sanitize_place_data on its own: applied to a list of values, and again   *)
(* to its result.                                                            *)

InitSanitize ==
    /\ pc = "sanitize"
    /\ place_data \in SeqsUpTo(FieldValues, MaxFields)
    /\ location = "Springfield"
    /\ sheet_identifier = location
    /\ catIdx = 1
    /\ business = "unset"
    /\ collected = << >>
    /\ files = [f \in FileNames |-> NoFile]
    /\ urls = << >>
    /\ index = 0
    /\ rotations = 0
    /\ navigated = 0
    /\ raised = 0
    /\ handed = 0
    /\ driverAlive = TRUE
    /\ liveSessions = 2
    /\ tabs = 0
    /\ origOpen = TRUE
    /\ focus = "orig"
    /\ inFrame = FALSE
    /\ entriesLeft = 0
    /\ linksVia = "none"
    /\ wAttempt = 0
    /\ wOk = FALSE
    /\ lastCollect = "none"
    /\ loadFailed = FALSE
    /\ entryCap = 0
    /\ pageVaries = TRUE
    /\ destUrls = { SiteUrl }
    /\ storeUp = FALSE
    /\ sheet = NoSheet
    /\ navs = 0
    /\ nameTries = 0
    /\ firstName = EmptyStr
    /\ fields = NoFields
    /\ count_text = None
    /\ instagram_link = EmptyStr
    /\ facebook_link = EmptyStr
    /\ other_links = << >>
    /\ social_links = NoSocialLinks
    /\ stored = 0
    /\ scroll_i = 0
    /\ result_ind = 0
    /\ scroll_ok = 0
    /\ feed = << >>
    /\ sheets = << >>
    /\ returned = << >>
    /\ headers_set = TRUE
    /\ sheets_api = TRUE
    /\ session_dir = TRUE
    /\ read_urls = << >>
    /\ session_data = << >>
    /\ sess_files = << >>
    /\ last_set = << >>
    /\ loaded = << >>
    /\ lastRotation = NoRotation

\* place_data = self.sanitize_place_data(place_data)
Sanitize ==
    /\ pc = "sanitize"
    /\ place_data' = sanitize_place_data(place_data)
    /\ pc' = "sanitized"
    /\ UNCHANGED << location, sheet_identifier, catIdx, business, files,
                    loopVars, sessionVars, browserVars, linkVars, writeVars,
                    lastCollect, collected, loadFailed, envVars, sessVars, readVars, setupVars, createVars, feedVars, scrollVars, nameVars,
                    slotVars, fields, count_text, social_links, storeVars,
                    lastRotation >>

\* the same call on the list it returned
SanitizeAgain ==
    /\ pc = "sanitized"
    /\ place_data' = sanitize_place_data(place_data)
    /\ pc' = "sanitized twice"
    /\ UNCHANGED << location, sheet_identifier, catIdx, business, files,
                    loopVars, sessionVars, browserVars, linkVars, writeVars,
                    lastCollect, collected, loadFailed, envVars, sessVars, readVars, setupVars, createVars, feedVars, scrollVars, nameVars,
                    slotVars, fields, count_text, social_links, storeVars,
                    lastRotation >>

NextSanitize ==
    \/ Sanitize
    \/ SanitizeAgain

SpecSanitize == InitSanitize /\ [][NextSanitize]_vars

----------------------------------------------------------------------------
(* Properties                                                               *)

\* positions inside the loop of get_details
LoopPcs == {"item", "open", "extract", "links", "entry", "write"}
\* positions inside the loop body
BodyPcs == LoopPcs \ {"item"}
\* positions between the end of setUp and teardown
RunningPcs == LoopPcs \cup {"test_contact", "gmaps_input", "get_details",
                            "quit_driver", "proxy_change", "done"}

(* C1: per-item isolation in get_details.  An item that raises ends only    *)
(* its own iteration: the loop goes on with the next index, never leaves    *)
(* get_details through the exception, every item up to the current index    *)
(* had its navigation attempted, and the records handed to                  *)
(* write_place_data are the processed items minus those that raised; at     *)
(* the end of the loop that is N minus the number of raising items.         *)
C1_PerItemIsolation ==
    /\ pc # "aborted"
    /\ pc \in BodyPcs => index < Len(urls)
    /\ pc = "item" => /\ index <= Len(urls)
                      /\ navigated = index
                      /\ handed = index - raised

\* an item is being written after an earlier item of the batch raised
C1_Witness ==
    /\ pc = "write"
    /\ raised >= 1
    /\ index = Len(urls) - 1
    /\ Len(urls) >= 3

(* C2: rotation cadence.  refresh_proxy_session is called exactly at the    *)
(* items with (index + 1) mod 10 = 0, before their navigation: when item    *)
(* index is about to be opened floor((index + 1) / 10) calls were made,     *)
(* after M items floor(M / 10), whatever failed before.                     *)
C2_RotationCadence ==
    /\ [](pc = "open" => rotations = (index + 1) \div 10)
    /\ [](pc = "item" => rotations = index \div 10)
    /\ [][rotations' = rotations + 1 =>
              pc = "item" /\ pc' = "open" /\ (index + 1) % 10 = 0]_vars

\* a batch of at least 20 items is through, with items that raised
C2_Witness ==
    /\ pc = "item"
    /\ index = Len(urls)
    /\ Len(urls) >= 20
    /\ rotations = 2
    /\ raised >= 1
    /\ ~driverAlive

(* C3: single live session.  Between the end of setUp and teardown exactly  *)
(* one browser session is live.                                             *)
C3_SingleLiveSession ==
    pc \in RunningPcs => liveSessions = 1

(* C4: bounded write retry.  A record gets at most 2 write attempts, the    *)
(* second only after the first raised; after a write that returned, or      *)
(* after the second failure, write_place_data returns normally and the      *)
(* loop goes to the next item: the record is not retried and nothing is     *)
(* raised.                                                                  *)
C4_BoundedWriteRetry ==
    /\ [](pc = "write" => wAttempt <= 1 /\ (wAttempt = 1 => ~wOk))
    /\ [][pc = "write" =>
            \/ pc' = "write" /\ wAttempt = 0 /\ wAttempt' = 1 /\ ~wOk'
                  /\ index' = index /\ handed' = handed
            \/ pc' = "item" /\ index' = index + 1 /\ raised' = raised
                  /\ handed' = handed]_vars
    /\ [][pc = "write" /\ wAttempt = 1 => pc' = "item"]_vars

\* the first attempt for a record raised, the second is due
C4_Witness ==
    /\ pc = "write"
    /\ wAttempt = 1
    /\ ~wOk

(* C5: zero results blocks extraction.  After a collection that found no    *)
(* identifier, no item of that category is navigated to or written.         *)
C5_ZeroResultsBlocksExtraction ==
    lastCollect = "zero" => pc \notin BodyPcs /\ navigated = 0 /\ handed = 0

(* C6: zero results persists no checkpoint.  A gmaps_input call that finds  *)
(* no identifier leaves every checkpoint file as it was: none is created,   *)
(* none is changed.                                                         *)
C6_ZeroResultsNoCheckpoint ==
    [][pc = "gmaps_input" /\ lastCollect' = "zero" => files' = files]_vars

\* a collection found nothing while the batch key had no checkpoint file
C6_Witness ==
    /\ lastCollect = "zero"
    /\ pc = "get_details"
    /\ ~files[FileName(sheet_identifier)].exists

(* C7: checkpoint round trip.  The batch load_place_urls reads after        *)
(* save_urls_to_json is the saved sequence, same elements, same order,      *)
(* duplicates kept; a later save for the same key replaces the earlier      *)
(* batch; files of other keys are not written.                              *)
C7_CheckpointRoundTrip ==
    /\ [](lastCollect = "saved" /\ pc \in LoopPcs => urls = collected)
    /\ [][pc = "gmaps_input" /\ lastCollect' = "saved" =>
            /\ collected' # << >>
            /\ load_place_urls(files', sheet_identifier) = collected'
            /\ \A f \in FileNames \ {FileName(sheet_identifier)} :
                  files'[f] = files[f]]_vars

\* the second category saved a batch with a duplicate over the first one's
C7_Witness ==
    /\ pc = "item"
    /\ catIdx = 2
    /\ lastCollect = "saved"
    /\ urls = << Href(PlacePrefix, "/B"), Href(PlacePrefix, "/B") >>

(* C8: missing checkpoint fails loudly.  With no checkpoint file for the    *)
(* batch key, load_place_urls raises, and get_details passes the error to   *)
(* its caller without entering the loop: no item is navigated to or         *)
(* written.                                                                 *)
C8_MissingCheckpointRaises ==
    /\ [](pc \in LoopPcs => files[FileName(sheet_identifier)].exists)
    /\ [][pc = "get_details" /\ ~files[FileName(sheet_identifier)].exists =>
            /\ loadFailed'
            /\ pc' \notin LoopPcs
            /\ urls' = << >>
            /\ navigated' = 0
            /\ handed' = 0]_vars

\* get_details was left by the error of load_place_urls
C8_Witness ==
    /\ loadFailed
    /\ pc = "quit_driver"
    /\ ~files[FileName(sheet_identifier)].exists

(* C9: missing checkpoint aborts the run.  Once load_place_urls has raised  *)
(* for a missing file, no category is collected or extracted any more.      *)
C9_MissingCheckpointAborts ==
    loadFailed => pc \notin LoopPcs \cup {"gmaps_input", "get_details"}

(* C10: link resolver focus recovery.  At the start of every entry          *)
(* iteration the browser is focused on the original tab inside the          *)
(* overlay frame, and when get_social_media_links returns it is not         *)
(* focused on a tab other than the original one.                            *)
C10_FocusRecovery ==
    /\ pc = "entry" => focus = "orig" /\ inFrame
    /\ pc = "write" => focus # "entry"

(* C11: link resolution is best effort.  A failure of the whole procedure   *)
(* (the frame is not found, the entries cannot be enumerated, the recovery  *)
(* of an entry raises) does not reach the except clause of the loop body:   *)
(* get_social_media_links returns empty instagram, facebook and other, the  *)
(* record is assembled from them and handed to write_place_data.            *)
C11_LinkResolutionBestEffort ==
    /\ [][(pc \in {"links", "entry"}) =>
            (pc' \in {"entry", "write"} /\ raised' = raised /\ index' = index)]_vars
    /\ [][(pc \in {"links", "entry"}) /\ linksVia' = "failed" =>
            (pc' = "write" /\ handed' = handed + 1
             /\ social_links' = NoSocialLinks
             /\ place_data' = sanitize_place_data(
                     PlaceData(fields, NoSocialLinks, urls[index + 1], business)))]_vars
    /\ [](pc = "write" /\ linksVia = "failed" =>
            (Len(place_data) = 13
             /\ place_data[3] = NA /\ place_data[4] = NA /\ place_data[8] = NA))

\* the recovery of an entry raised with the entry tab still open, and the
\* record is at write_place_data
C11_Witness ==
    /\ pc = "write"
    /\ linksVia = "failed"
    /\ tabs > 0
    /\ place_data # << >>

(* C12: link classification.  In one loop iteration at most one slot        *)
(* changes: an address that contains "instagram.com" becomes the instagram  *)
(* link, else one that contains "facebook.com" becomes the facebook link,   *)
(* else it is appended at the end of the other links.  An address with both *)
(* substrings goes to the instagram slot only.                              *)
C12_LinkClassification ==
    [][pc = "entry" /\ pc' = "entry" =>
         (\/ UNCHANGED slotVars
          \/ \E u \in AllDestUrls \cup { Str(h) : h \in Hrefs } :
               \/ /\ Contains(u, "instagram.com")
                  /\ instagram_link' = u
                  /\ UNCHANGED << facebook_link, other_links >>
               \/ /\ ~Contains(u, "instagram.com")
                  /\ Contains(u, "facebook.com")
                  /\ facebook_link' = u
                  /\ UNCHANGED << instagram_link, other_links >>
               \/ /\ ~Contains(u, "instagram.com")
                  /\ ~Contains(u, "facebook.com")
                  /\ other_links' = Append(other_links, u)
                  /\ UNCHANGED << instagram_link, facebook_link >>)]_vars

\* an address with both substrings was read, after another address
C12_Witness ==
    /\ pc = "entry"
    /\ instagram_link = BothUrl
    /\ facebook_link = EmptyStr
    /\ other_links = << MenuUrl >>

(* C13: header row, then one row per record.  On a sheet that was empty     *)
(* when the run began, the rows are the header row followed by one row for  *)
(* each write_values call that returned; write_values writes the header row *)
(* only when it finds no rows, and a call that returns adds its record as   *)
(* one row after the last.                                                   *)
C13_HeaderThenRows ==
    /\ [](sheet.rows = << >> => stored = 0)
    /\ [](sheet.rows # << >> =>
            (sheet.rows[1] = headers
             /\ Len(sheet.rows) = 1 + stored
             /\ \A i \in 2..Len(sheet.rows) :
                   Len(sheet.rows[i]) = 13 /\ sheet.rows[i] # headers))
    /\ [][pc = "write" /\ sheet.rows # << >> =>
            (sheet' = sheet
             \/ (stored' = stored + 1
                 /\ sheet'.rows = Append(sheet.rows, place_data)))]_vars
    /\ [][pc = "write" /\ sheet.rows = << >> =>
            (sheet'.rows \in { << >>, << headers >>, << headers, place_data >> }
             /\ (stored' = stored + 1 <=> Len(sheet'.rows) = 2))]_vars

\* the run is over and three records are stored under the header row
C13_Witness ==
    /\ pc = "end"
    /\ stored = 3
    /\ Len(sheet.rows) = 4

(* C14: one-shot name recovery.  For one item the place name is read at     *)
(* most twice and the page is opened at most twice.  The second open is     *)
(* made exactly when the first reading gave "NA"; the second reading is     *)
(* made exactly when that second open returned, and when the open raises    *)
(* the item is abandoned.  After a second reading the other fields are      *)
(* read whatever the name is.                                                *)
C14_OneShotNameRecovery ==
    /\ [](navs \in 0..2 /\ nameTries \in 0..2)
    /\ [][pc = "extract" =>
            (nameTries' \in {1, 2}
             /\ (navs' = 2 <=> firstName' = NA)
             /\ (nameTries' = 2 <=> (firstName' = NA /\ pc' = "links"))
             /\ (firstName' # NA => (pc' = "links" /\ nameTries' = 1))
             /\ (firstName' = NA /\ pc' # "links" =>
                    (raised' = raised + 1 /\ index' = index + 1)))]_vars

\* the claim as stated: the second reading is made whenever the first gave
\* the sentinel
C14_AsStated ==
    [][pc = "extract" =>
         ((navs' = 2 <=> firstName' = NA)
          /\ (nameTries' = 2 <=> firstName' = NA))]_vars

\* both readings gave no name and the other fields were read
C14_Witness ==
    /\ pc = "links"
    /\ navs = 2
    /\ nameTries = 2
    /\ fields.place_name = NA
    /\ fields.place_phone = Str(PageText.place_phone)

\* column of the record that holds a field read from the page
Col(f) ==
    CASE f = "place_name" -> 1
      [] f = "place_address" -> 2
      [] f = "place_website" -> 5
      [] f = "plus_code" -> 6
      [] f = "place_phone" -> 9
      [] f = "place_type" -> 11
      [] f = "place_review_star" -> 12
      [] f = "place_review_count" -> 13

(* C15: per-field isolation.  The item is never abandoned because a field   *)
(* could not be read.  In the written record a field of type, address,      *)
(* website, phone, stars, plus code that could not be read is "NA" and a    *)
(* field that was read with a text holds that text, whatever happened to    *)
(* the others; a review count that could not be read is "NA" when no star   *)
(* rating was read and "1" when one was.                                     *)
C15_PerFieldIsolation ==
    /\ [][pc = "extract" /\ pc' # "links" => (navs' = 2 /\ nameTries' = 1)]_vars
    /\ [](pc = "write" =>
            (/\ \A f \in ScalarFields :
                   place_data[Col(f)] = IF Falsy(fields[f]) THEN NA ELSE fields[f]
             /\ Falsy(count_text) =>
                   place_data[13] = IF Falsy(fields.place_review_star)
                                    THEN NA ELSE Str(<< "1" >>)))

\* the claim as stated: every field that could not be read is "NA"
C15_AsStated ==
    pc = "write" =>
        /\ \A f \in ScalarFields : fields[f].isNone => place_data[Col(f)] = NA
        /\ count_text.isNone => place_data[13] = NA

\* the website could not be read, the phone and the address were
C15_Witness ==
    /\ pc = "write"
    /\ fields.place_website = None
    /\ place_data[5] = NA
    /\ place_data[9] = Str(PageText.place_phone)
    /\ place_data[2] = Str(PageText.place_address)

(* C16: review count.  The written count is the text of the count element   *)
(* without its parentheses; when that element could not be read, or nothing *)
(* is left of its text, the count is "1" if a star rating was read and "NA" *)
(* if none was.  A count that was read with some digits is written as read. *)
C16_ReviewCountNormalization ==
    pc = "write" =>
        LET digits == IF count_text.isNone THEN << >>
                      ELSE SelectSeq(count_text.parts,
                                     LAMBDA ch : ch # "(" /\ ch # ")")
        IN  /\ digits # << >> => place_data[13] = Str(digits)
            /\ digits = << >> /\ ~Falsy(fields.place_review_star) =>
                    place_data[13] = Str(<< "1" >>)
            /\ digits = << >> /\ Falsy(fields.place_review_star) =>
                    place_data[13] = NA
            /\ \A i \in DOMAIN place_data[13].parts :
                    place_data[13].parts[i] \notin { "(", ")" }

\* the count element showed "()" next to a star rating
C16_Witness ==
    /\ pc = "write"
    /\ count_text = Str(<< "(", ")" >>)
    /\ fields.place_review_star = Str(PageText.place_review_star)
    /\ place_data[13] = Str(<< "1" >>)

(* C18: record shape.  The list handed to write_place_data has 13 fields:   *)
(* name, address, instagram link, facebook link, website, plus code, source *)
(* url, other links, phone, business category, place type, review stars,    *)
(* review count.  The source url is the identifier of the item, the         *)
(* business category is the category get_details was called with, and no    *)
(* field is None or empty, whichever readings and link resolution failed.   *)
C18_RecordShape ==
    pc = "write" =>
        LET raw == << fields.place_name, fields.place_address,
                      social_links.instagram, social_links.facebook,
                      fields.place_website, fields.plus_code,
                      Str(urls[index + 1]), social_links.other,
                      fields.place_phone, Str(<< business_categories[catIdx] >>),
                      fields.place_type, fields.place_review_star,
                      fields.place_review_count >>
        IN  /\ Len(place_data) = 13
            /\ \A k \in 1..13 :
                  /\ place_data[k] # None
                  /\ place_data[k] # EmptyStr
                  /\ place_data[k] = IF Falsy(raw[k]) THEN NA ELSE raw[k]
            /\ place_data[7] = Str(urls[index + 1])
            /\ place_data[10] = Str(<< business_categories[catIdx] >>)

\* link resolution failed, the website was not read, the type was read empty
C18_Witness ==
    /\ pc = "write"
    /\ linksVia = "failed"
    /\ catIdx = 2
    /\ fields.place_website = None
    /\ fields.place_type = EmptyStr
    /\ place_data[1] = Str(PageText.place_name)

(* C17: sanitize_place_data.  On every list of values that are None, empty  *)
(* or a text, the result has the same length, holds "NA" where the list had *)
(* None or the empty text and the same text elsewhere, so no field of it is *)
(* None or empty; applied to its own result it changes nothing.             *)
C17_SanitizeIdempotentTotal ==
    /\ [][(pc \in {"sanitize", "sanitized"}) =>
            (Len(place_data') = Len(place_data)
             /\ \A i \in 1..Len(place_data) :
                   /\ place_data'[i] # None
                   /\ place_data'[i] # EmptyStr
                   /\ (place_data[i] = None \/ place_data[i] = EmptyStr)
                         => place_data'[i] = NA
                   /\ (place_data[i] # None /\ place_data[i] # EmptyStr)
                         => place_data'[i] = place_data[i])]_vars
    /\ [][pc = "sanitized" => place_data' = place_data]_vars
    /\ [](pc = "sanitize" => ENABLED Sanitize)

\* a list of None, the empty text and a text was sanitized twice
C17_Witness ==
    /\ pc = "sanitized twice"
    /\ place_data = << NA, NA, Str(<< "x" >>) >>

(* C19: a rotation that cannot construct the new session is fatal.  After   *)
(* a refresh_proxy_session in which the old session was quit and the new    *)
(* one could not be started, the loop body does not go on to open the item. *)
C19_RotationConstructionFatal ==
    (lastRotation.happened /\ lastRotation.quitOk /\ ~lastRotation.canCreate)
        => pc # "open"

(* C20: quitting is best effort in a rotation.  Every refresh_proxy_session *)
(* in which a session can be started ends with a newly started live         *)
(* session, also when quitting the old one raised.                          *)
C20_RotationQuitBestEffort ==
    (lastRotation.happened /\ lastRotation.canCreate)
        => (lastRotation.created /\ driverAlive)

----------------------------------------------------------------------------
(* C21: per-category full reset.  In test_contact every category's pass    *)
(* (gmaps_input, get_details), whether it returned or raised, is followed  *)
(* by the quit of the current session and then by change_proxy; a raise of *)
(* quit does not keep change_proxy from running, change_proxy starts a new *)
(* session whenever a browser can be started, and the collection of a      *)
(* later category only ever starts from change_proxy.                      *)

----------------------------------------------------------------------------
(* scroll_get_all_links, lines 313-325, as gmaps_input calls it (92-95):    *)
(* one step per iteration of "for _ in range(200)".  What the feed shows    *)
(* and whether the driver answers is drawn anew at every iteration.         *)

\* range(200) of line 316
ScrollIterations == 200

\* most result entries the feed shows at an iteration
MaxFeed == 3

\* the try block of one iteration runs to its end: find_elements answered,
\* elements[result_ind] exists and the script ran
IterationOk(answered, elements, ind, scriptOk) ==
    answered /\ ind < elements /\ scriptOk

\* variant: result_ind += 2 stands after the try statement
NextResultIndAlways(ind, ok) == ind + 2

\* result_ind += 2 is the last statement of the try block
NextResultInd(ind, ok) == IF ok THEN ind + 2 ELSE ind

InitScroll ==
    /\ pc = "scroll"
    /\ place_data = << >>
    /\ location = "Springfield"
    /\ sheet_identifier = location
    /\ catIdx = 1
    /\ business = "unset"
    /\ collected = << >>
    /\ files = [f \in FileNames |-> NoFile]
    /\ urls = << >>
    /\ index = 0
    /\ rotations = 0
    /\ navigated = 0
    /\ raised = 0
    /\ handed = 0
    /\ driverAlive = TRUE
    /\ liveSessions = 2
    /\ tabs = 0
    /\ origOpen = TRUE
    /\ focus = "orig"
    /\ inFrame = FALSE
    /\ entriesLeft = 0
    /\ linksVia = "none"
    /\ wAttempt = 0
    /\ wOk = FALSE
    /\ lastCollect = "none"
    /\ loadFailed = FALSE
    /\ entryCap = 0
    /\ pageVaries = TRUE
    /\ destUrls = { SiteUrl }
    /\ storeUp = FALSE
    /\ sheet = NoSheet
    /\ navs = 0
    /\ nameTries = 0
    /\ firstName = EmptyStr
    /\ fields = NoFields
    /\ count_text = None
    /\ instagram_link = EmptyStr
    /\ facebook_link = EmptyStr
    /\ other_links = << >>
    /\ social_links = NoSocialLinks
    /\ stored = 0
    /\ scroll_i = 0
    /\ result_ind = 0
    /\ scroll_ok = 0
    /\ feed = << >>
    /\ sheets = << >>
    /\ returned = << >>
    /\ headers_set = TRUE
    /\ sheets_api = TRUE
    /\ session_dir = TRUE
    /\ read_urls = << >>
    /\ session_data = << >>
    /\ sess_files = << >>
    /\ last_set = << >>
    /\ loaded = << >>
    /\ lastRotation = NoRotation

ScrollIteration ==
    /\ pc = "scroll"
    /\ scroll_i < ScrollIterations
    /\ \E answered \in BOOLEAN, elements \in 0..MaxFeed, scriptOk \in BOOLEAN :
         LET ok == IterationOk(answered, elements, result_ind, scriptOk)
         IN  /\ result_ind' = NextResultInd(result_ind, ok)
             /\ scroll_ok' = IF ok THEN scroll_ok + 1 ELSE scroll_ok
    /\ scroll_i' = scroll_i + 1
    /\ pc' = "scroll"
    /\ UNCHANGED << location, sheet_identifier, catIdx, business, files,
                    loopVars, sessionVars, browserVars, linkVars, writeVars,
                    lastCollect, collected, loadFailed, envVars, sessVars, readVars, setupVars, createVars, feedVars, nameVars,
                    slotVars, recordVars, storeVars, lastRotation >>

\* the range is exhausted: the call returns to line 96 of gmaps_input
ScrollReturn ==
    /\ pc = "scroll"
    /\ scroll_i = ScrollIterations
    /\ pc' = "scrolled"
    /\ UNCHANGED << location, sheet_identifier, catIdx, business, files,
                    loopVars, sessionVars, browserVars, linkVars, writeVars,
                    lastCollect, collected, loadFailed, envVars, sessVars, readVars, setupVars, createVars, feedVars, scrollVars,
                    nameVars, slotVars, recordVars, storeVars, lastRotation >>

NextScroll ==
    \/ ScrollIteration
    \/ ScrollReturn

\* every statement of the loop returns (the waits are bounded sleeps), so an
\* iteration that can run does run
SpecScroll == InitScroll /\ [][NextScroll]_vars /\ WF_vars(NextScroll)

----------------------------------------------------------------------------
(* C22: scroll loop termination.  scroll_get_all_links returns, and only   *)
(* after exactly 200 iterations, however many of them fail; an iteration   *)
(* that fails leaves the loop running and the entry index as it was; the   *)
(* index grows by 2 on an iteration that succeeds, so it is always even    *)
(* and at most twice the number of successful iterations.                  *)

C22_ScrollLoopTermination ==
    /\ <>(pc = "scrolled")
    /\ [](pc = "scrolled" => scroll_i = ScrollIterations)
    /\ [][(pc = "scroll") =>
            (\/ pc' = "scrolled" /\ scroll_i = ScrollIterations
                   /\ UNCHANGED scrollVars
             \/ /\ pc' = "scroll"
                /\ scroll_i' = scroll_i + 1
                /\ \/ result_ind' = result_ind /\ scroll_ok' = scroll_ok
                   \/ result_ind' = result_ind + 2 /\ scroll_ok' = scroll_ok + 1)]_vars
    /\ [](result_ind % 2 = 0 /\ result_ind <= 2 * scroll_ok)

\* the call returned after 199 iterations that failed and one that did not
C22_Witness ==
    /\ pc = "scrolled"
    /\ scroll_i = ScrollIterations
    /\ scroll_ok = 1
    /\ result_ind = 2

----------------------------------------------------------------------------
(* C23: identifier filtering.  When gmaps_input has run its search, the    *)
(* batch it saves under the checkpoint key is the list of the feed's       *)
(* anchor targets that begin with "https://www.google.com/maps/place", in  *)
(* the order of the feed and with repeated targets kept; the other anchors *)
(* are dropped, and the batch is saved whenever one anchor matches.        *)

IsPlaceUrl(h) == StartsWith(h, PlacePrefix)

C23_IdentifierFiltering ==
    (pc = "get_details" /\ lastCollect \in {"saved", "zero"}) =>
        /\ collected = SelectSeq(feed, IsPlaceUrl)
        /\ lastCollect = "saved" <=> (\E k \in 1..Len(feed) : IsPlaceUrl(feed[k]))
        /\ lastCollect = "saved" =>
              /\ files[FileName(sheet_identifier)].exists
              /\ JsonLoadUrls(files[FileName(sheet_identifier)].text)
                    = SelectSeq(feed, IsPlaceUrl)

\* a feed of one anchor outside the scheme followed by one inside it
C23_Witness ==
    /\ pc = "get_details"
    /\ lastCollect = "saved"
    /\ feed = << Href(OtherPrefix, "/place/X"), Href(PlacePrefix, "/A") >>
    /\ collected = << Href(PlacePrefix, "/A") >>

----------------------------------------------------------------------------
(* MapsBusinessInfo.create_new_sheet, lines 111-154, on a spreadsheet: the  *)
(* list of its sheets, each with a title and a sheetId.  The service gives  *)
(* a sheet it adds an id no sheet of the spreadsheet has.                   *)

\* most calls of create_new_sheet in a run of the specification
MaxCalls == 3

Titles == Locations \cup {"Sheet1"}
SheetIds == 0..Cardinality(Titles)

SheetOf(title, id) == [title |-> title, sheetId |-> id]
NoGid == [isNone |-> TRUE, id |-> 0]
Gid(id) == [isNone |-> FALSE, id |-> id]

\* existing_titles, line 129
ExistingTitles(existing_sheets) ==
    { existing_sheets[k].title : k \in DOMAIN existing_sheets }

\* next(sheet for sheet in existing_sheets if its title is sheet_title)
FirstTitled(existing_sheets, sheet_title) ==
    LET ks == { k \in DOMAIN existing_sheets :
                   existing_sheets[k].title = sheet_title }
    IN  existing_sheets[CHOOSE k \in ks : \A j \in ks : k <= j]

\* ids the service may give to an added sheet
FreshIds(existing_sheets) ==
    SheetIds \ { existing_sheets[k].sheetId : k \in DOMAIN existing_sheets }

\* variant: the test of line 132 is missing, addSheet is always sent
create_new_sheet_unchecked(existing_sheets, sheet_title, failAt, newId) ==
    IF failAt # 0
    THEN [sheets |-> existing_sheets, gid |-> NoGid]
    ELSE [sheets |-> Append(existing_sheets, SheetOf(sheet_title, newId)),
          gid |-> Gid(newId)]

\* the spreadsheet after the call and the value returned; any exception is
\* caught and None returned (lines 152-154)
create_new_sheet(existing_sheets, sheet_title, failAt, newId) ==
    IF failAt = 1
    THEN [sheets |-> existing_sheets, gid |-> NoGid]
    ELSE IF sheet_title \in ExistingTitles(existing_sheets)
    THEN [sheets |-> existing_sheets,
          gid |-> Gid(FirstTitled(existing_sheets, sheet_title).sheetId)]
    ELSE IF failAt = 2
    THEN [sheets |-> existing_sheets, gid |-> NoGid]
    ELSE [sheets |-> Append(existing_sheets, SheetOf(sheet_title, newId)),
          gid |-> Gid(newId)]

InitCreate ==
    /\ pc = "create"
    /\ place_data = << >>
    /\ location = "Springfield"
    /\ sheet_identifier = location
    /\ catIdx = 1
    /\ business = "unset"
    /\ collected = << >>
    /\ files = [f \in FileNames |-> NoFile]
    /\ urls = << >>
    /\ index = 0
    /\ rotations = 0
    /\ navigated = 0
    /\ raised = 0
    /\ handed = 0
    /\ driverAlive = TRUE
    /\ liveSessions = 2
    /\ tabs = 0
    /\ origOpen = TRUE
    /\ focus = "orig"
    /\ inFrame = FALSE
    /\ entriesLeft = 0
    /\ linksVia = "none"
    /\ wAttempt = 0
    /\ wOk = FALSE
    /\ lastCollect = "none"
    /\ loadFailed = FALSE
    /\ entryCap = 0
    /\ pageVaries = TRUE
    /\ destUrls = { SiteUrl }
    /\ storeUp = FALSE
    /\ sheet = NoSheet
    /\ navs = 0
    /\ nameTries = 0
    /\ firstName = EmptyStr
    /\ fields = NoFields
    /\ count_text = None
    /\ instagram_link = EmptyStr
    /\ facebook_link = EmptyStr
    /\ other_links = << >>
    /\ social_links = NoSocialLinks
    /\ stored = 0
    /\ scroll_i = 0
    /\ result_ind = 0
    /\ scroll_ok = 0
    /\ feed = << >>
    /\ sheets = << SheetOf("Sheet1", 0) >>
    /\ returned = << >>
    /\ headers_set = TRUE
    /\ sheets_api = TRUE
    /\ session_dir = TRUE
    /\ read_urls = << >>
    /\ session_data = << >>
    /\ sess_files = << >>
    /\ last_set = << >>
    /\ loaded = << >>
    /\ lastRotation = NoRotation

CreateNewSheet ==
    /\ pc = "create"
    /\ Len(returned) < MaxCalls
    \* failAt: 0 none, 1 spreadsheets().get raises, 2 batchUpdate raises
    /\ \E sheet_title \in Titles, failAt \in 0..2,
          newId \in FreshIds(sheets) :
         LET c == create_new_sheet(sheets, sheet_title, failAt, newId)
         IN  /\ sheets' = c.sheets
             /\ returned' = Append(returned, [title |-> sheet_title,
                                              failAt |-> failAt,
                                              gid |-> c.gid])
    /\ pc' = "create"
    /\ UNCHANGED << location, sheet_identifier, catIdx, business, files,
                    loopVars, sessionVars, browserVars, linkVars, writeVars,
                    lastCollect, collected, loadFailed, envVars, sessVars, readVars, setupVars, feedVars,
                    scrollVars, nameVars, slotVars, recordVars, storeVars,
                    lastRotation >>

NextCreate == CreateNewSheet

SpecCreate == InitCreate /\ [][NextCreate]_vars

----------------------------------------------------------------------------
(* C24: create_new_sheet is idempotent.  A call with a title the           *)
(* spreadsheet already has adds no sheet and, when the service answers     *)
(* it, returns the id of the sheet with that title; a call that the        *)
(* service does not answer returns None and adds nothing.  After any       *)
(* sequence of calls the spreadsheet has at most one sheet per title and   *)
(* the answered calls with the same title returned the same id.            *)

C24_CreateSheetIdempotent ==
    /\ [][(Len(returned') = Len(returned) + 1) =>
            LET c == returned'[Len(returned')] IN
            IF c.title \in ExistingTitles(sheets)
            THEN /\ sheets' = sheets
                 /\ c.failAt # 1 =>
                       c.gid = Gid(FirstTitled(sheets, c.title).sheetId)
                 /\ c.failAt = 1 => c.gid = NoGid
            ELSE IF c.failAt = 0
            THEN /\ ~c.gid.isNone
                 /\ sheets' = Append(sheets, SheetOf(c.title, c.gid.id))
            ELSE sheets' = sheets /\ c.gid = NoGid]_vars
    /\ [](pc = "create" =>
            \A i, j \in DOMAIN sheets :
                sheets[i].title = sheets[j].title => i = j)
    /\ [](\A i, j \in DOMAIN returned :
            (/\ returned[i].title = returned[j].title
             /\ ~returned[i].gid.isNone
             /\ ~returned[j].gid.isNone) => returned[i].gid = returned[j].gid)

\* the claim as stated: every call with a title that exists returns the
\* id of the sheet with that title
C24_AsStated ==
    [][(/\ Len(returned') = Len(returned) + 1
        /\ returned'[Len(returned')].title \in ExistingTitles(sheets)) =>
            /\ sheets' = sheets
            /\ returned'[Len(returned')].gid =
                  Gid(FirstTitled(sheets, returned'[Len(returned')].title).sheetId)]_vars

\* two answered calls with the title "Springfield": the first added the
\* sheet, the second found it
C24_Witness ==
    /\ pc = "create"
    /\ Len(returned) = 2
    /\ returned[1].title = "Springfield"
    /\ returned[2].title = "Springfield"
    /\ returned[1].failAt = 0
    /\ returned[2].failAt = 0
    /\ returned[1].gid = returned[2].gid
    /\ Len(sheets) = 2

----------------------------------------------------------------------------
(* C25: a missing header schema is fatal.  When the instance has no        *)
(* attribute headers as setUp of GoogleMaps begins, setUp raises at once:  *)
(* the run is aborted with no browser session started, no sheets client    *)
(* made and no session directory created, and it takes no further step.    *)

C25_MissingHeadersFatal ==
    /\ [][(pc = "setUp" /\ ~headers_set) =>
            (/\ pc' = "aborted"
             /\ UNCHANGED << sessionVars, browserVars, sheets_api,
                             session_dir, files, storeVars >>)]_vars
    /\ [](~headers_set =>
            /\ pc \in {"setUp", "aborted"}
            /\ liveSessions = 0
            /\ ~driverAlive
            /\ ~sheets_api
            /\ ~session_dir)
    /\ [](pc = "aborted" => ~ENABLED Next)

\* setUp has raised for the missing attribute
C25_Witness ==
    /\ pc = "aborted"
    /\ ~headers_set
    /\ liveSessions = 0

----------------------------------------------------------------------------
(* C26: no stale batch.  Whenever the loop of get_details runs for a       *)
(* category, the gmaps_input call of that category saved a batch and the   *)
(* batch being extracted is that one: never one left in the checkpoint     *)
(* file by an earlier category or an earlier run.                          *)

C26_NoStaleBatch ==
    pc \in LoopPcs => (lastCollect = "saved" /\ urls = collected)

----------------------------------------------------------------------------
(* C27: the original tab is never closed.  During get_social_media_links   *)
(* the detail tab of the session stays open, and the address of the detail *)
(* page is never put among the links of its own record.                    *)

C27_OriginalTabNeverClosed ==
    /\ driverAlive => origOpen
    /\ pc = "entry" =>
          \A k \in DOMAIN other_links : other_links[k] # Str(urls[index + 1])

(* C28: no leaked tabs.  When get_social_media_links has returned, by the  *)
(* end of its loop or by either except clause, no tab opened by an overlay *)
(* entry is still open: the session has the tabs it had when the call      *)
(* began.                                                                  *)

C28_NoLeakedTabs ==
    pc = "write" => tabs = 0

----------------------------------------------------------------------------
(* C29: no resolved link is lost, as far as the value returned can hold    *)
(* it.  While the entries are iterated, the other links are the addresses  *)
(* read that contain neither "instagram.com" nor "facebook.com", in the    *)
(* order read, and each of the two slots is the last address read of its   *)
(* kind (an earlier one is overwritten); an entry that fails after its     *)
(* address was read, or a later entry that fails, takes nothing away.  On  *)
(* a return by the end of the loop each of these addresses is in the       *)
(* value returned; on a return by the outer except clause the value is     *)
(* all empty.                                                              *)

IsInstagramUrl(u) == Contains(u, "instagram.com")
IsFacebookUrl(u) == ~Contains(u, "instagram.com") /\ Contains(u, "facebook.com")
IsOtherUrl(u) == ~Contains(u, "instagram.com") /\ ~Contains(u, "facebook.com")

LastOrEmpty(list) == IF list = << >> THEN EmptyStr ELSE list[Len(list)]

\* the address is one of the two slots or a piece of the joined string
Appears(u, links) ==
    \/ links.instagram = u
    \/ links.facebook = u
    \/ \E i \in 1..Len(links.other.parts) :
          /\ i + Len(u.parts) - 1 <= Len(links.other.parts)
          /\ SubSeq(links.other.parts, i, i + Len(u.parts) - 1) = u.parts

C29_NoResolvedLinkLost ==
    /\ [](pc = "entry" =>
            /\ other_links = SelectSeq(read_urls, IsOtherUrl)
            /\ instagram_link = LastOrEmpty(SelectSeq(read_urls, IsInstagramUrl))
            /\ facebook_link = LastOrEmpty(SelectSeq(read_urls, IsFacebookUrl)))
    /\ [][(pc = "entry" /\ pc' = "entry") =>
            (\/ read_urls' = read_urls
             \/ \E u \in AllDestUrls \cup { Str(h) : h \in Hrefs } :
                   read_urls' = Append(read_urls, u))]_vars
    /\ [][(pc = "entry" /\ pc' = "write") =>
            IF linksVia' = "normal"
            THEN /\ \A k \in DOMAIN other_links :
                       Appears(other_links[k], social_links')
                 /\ social_links'.instagram = instagram_link
                 /\ social_links'.facebook = facebook_link
            ELSE social_links' = NoSocialLinks]_vars

\* the claim as stated: every address read is in the value returned
C29_AsStated ==
    [][(pc = "entry" /\ pc' = "write") =>
         \A k \in DOMAIN read_urls : Appears(read_urls[k], social_links')]_vars

\* the loop ended after two entries whose addresses are both other links
C29_Witness ==
    /\ pc = "write"
    /\ linksVia = "normal"
    /\ social_links.instagram = EmptyStr
    /\ social_links.other = Str(SiteUrl.parts \o << " ; " >> \o MenuUrl.parts)

----------------------------------------------------------------------------
(* C30: append never overwrites.  A write_values call that returns puts    *)
(* the record of the current item in the row after the last row of the     *)
(* sheet (row 2 when it has just written the headers to an empty sheet);   *)
(* no step of the run, a failed attempt and a retry included, changes a    *)
(* row that has values, so the data rows stand in the order in which the   *)
(* items were processed.                                                   *)

C30_AppendNeverOverwrites ==
    /\ [][/\ Len(sheet'.rows) >= Len(sheet.rows)
          /\ \A i \in 1..Len(sheet.rows) : sheet'.rows[i] = sheet.rows[i]]_vars
    /\ [][(pc = "write" /\ stored' = stored + 1) =>
            (/\ Len(sheet'.rows) = IF sheet.rows = << >> THEN 2
                                   ELSE Len(sheet.rows) + 1
             /\ sheet'.rows[Len(sheet'.rows)] = place_data
             /\ sheet.rows = << >> => sheet'.rows[1] = headers)]_vars
    /\ [](pc = "write" =>
            place_data = sanitize_place_data(
                PlaceData(fields, social_links, urls[index + 1], business)))
    /\ [][(pc \in LoopPcs /\ pc' \in LoopPcs) => index' >= index]_vars

\* the first attempt for the second item failed while the sheet holds the
\* header row and the record of the first item
C30_Witness ==
    /\ pc = "write"
    /\ index = 1
    /\ wAttempt = 1
    /\ ~wOk
    /\ stored = 1
    /\ Len(sheet.rows) = 2

----------------------------------------------------------------------------
(* utilities/session.py: class Session.  session_data maps a url to a dict  *)
(* of key and value; each url has a file in the directory session whose     *)
(* name is made from the url.  A url is the sequence of its characters, a   *)
(* dict the sequence of its items in insertion order.                       *)

\* three addresses; the first two differ in one character that is not
\* alphanumeric
SessUrls == { << "a", ".", "b" >>, << "a", "/", "b" >>, << "c" >> }
SessKeys == {"k1", "k2"}
SessValues == { Str(<< "v1" >>), Str(<< "v2" >>) }

\* _sanitize_filename: "".join([c if c.isalnum() else "_" for c in url])
sanitize_filename(url) ==
    [i \in DOMAIN url |-> IF url[i] \in {"a", "b", "c"} THEN url[i] ELSE "_"]

\* lines 22-23 and 33-34
SessFileName(url) == << "session" >> \o sanitize_filename(url) \o << ".json" >>

\* an entry of session_data is [present, items]; an item is [key, value]

\* d[key] = value: a key the dict has keeps its place
DictSet(items, key, value) ==
    IF \E i \in DOMAIN items : items[i].key = key
    THEN [i \in DOMAIN items |->
             IF items[i].key = key THEN [key |-> key, value |-> value]
             ELSE items[i]]
    ELSE Append(items, [key |-> key, value |-> value])

RECURSIVE SessDumpItems(_)
SessDumpItems(items) ==
    IF items = << >> THEN << >>
    ELSE LET one == << JsonStr(<< items[1].key >>), JsonPunct(":"),
                       JsonStr(items[1].value.parts) >>
         IN  IF Len(items) = 1 THEN one
             ELSE one \o << JsonPunct(",") >> \o SessDumpItems(Tail(items))

\* json.load of such a text: key, ":", value, "," and so on between the braces
SessLoad(doc) ==
    LET body == SubSeq(doc, 2, Len(doc) - 1)
        n    == (Len(body) + 1) \div 4
    IN  [k \in 1..n |-> [key |-> body[4 * k - 3].text[1],
                          value |-> Str(body[4 * k - 1].text)]]

\* self.session_data.get(url, {})
DataOf(data, url) == IF data[url].present THEN data[url].items ELSE << >>

\* get_match_session, line 18
get_match_session(data, url, key) ==
    LET items == DataOf(data, url)
    IN  IF \E i \in DOMAIN items : items[i].key = key
        THEN items[CHOOSE i \in DOMAIN items : items[i].key = key].value
        ELSE None

\* save_session_data: open(filepath, "w"), json.dump
save_session_data(fs, data, url) ==
    [fs EXCEPT ![SessFileName(url)] =
        FileOf(<< JsonPunct("{") >> \o SessDumpItems(DataOf(data, url))
                   \o << JsonPunct("}") >>)]

\* load_session_data: the dict of the file, {} when there is no file
load_session_data(fs, data, url) ==
    LET file == fs[SessFileName(url)]
    IN  [data EXCEPT ![url] =
            [present |-> TRUE,
             items |-> IF file.exists THEN SessLoad(file.text) ELSE << >>]]

InitSession ==
    /\ pc = "session"
    /\ place_data = << >>
    /\ location = "Springfield"
    /\ sheet_identifier = location
    /\ catIdx = 1
    /\ business = "unset"
    /\ collected = << >>
    /\ files = [f \in FileNames |-> NoFile]
    /\ urls = << >>
    /\ index = 0
    /\ rotations = 0
    /\ navigated = 0
    /\ raised = 0
    /\ handed = 0
    /\ driverAlive = TRUE
    /\ liveSessions = 2
    /\ tabs = 0
    /\ origOpen = TRUE
    /\ focus = "orig"
    /\ inFrame = FALSE
    /\ entriesLeft = 0
    /\ linksVia = "none"
    /\ wAttempt = 0
    /\ wOk = FALSE
    /\ lastCollect = "none"
    /\ loadFailed = FALSE
    /\ entryCap = 0
    /\ pageVaries = TRUE
    /\ destUrls = { SiteUrl }
    /\ storeUp = FALSE
    /\ sheet = NoSheet
    /\ navs = 0
    /\ nameTries = 0
    /\ firstName = EmptyStr
    /\ fields = NoFields
    /\ count_text = None
    /\ instagram_link = EmptyStr
    /\ facebook_link = EmptyStr
    /\ other_links = << >>
    /\ social_links = NoSocialLinks
    /\ stored = 0
    /\ scroll_i = 0
    /\ result_ind = 0
    /\ scroll_ok = 0
    /\ feed = << >>
    /\ sheets = << >>
    /\ returned = << >>
    /\ headers_set = TRUE
    /\ sheets_api = TRUE
    /\ session_dir = TRUE
    /\ read_urls = << >>
    /\ session_data = [u \in SessUrls |-> [present |-> FALSE, items |-> << >>]]
    /\ sess_files = [f \in { SessFileName(u) : u \in SessUrls } |-> NoFile]
    /\ last_set = [u \in SessUrls |-> [k \in SessKeys |-> None]]
    /\ loaded = << >>
    /\ lastRotation = NoRotation

\* set_match_session(url, key, value), lines 11-14
SetMatchSession ==
    /\ pc = "session"
    /\ \E url \in SessUrls, key \in SessKeys, value \in SessValues :
         LET data == [session_data EXCEPT
                        ![url] = [present |-> TRUE,
                                  items |-> DictSet(DataOf(session_data, url),
                                                    key, value)]]
         IN  /\ session_data' = data
             /\ sess_files' = save_session_data(sess_files, data, url)
             /\ last_set' = [last_set EXCEPT ![url][key] = value]
    /\ loaded' = << >>
    /\ pc' = "session"
    /\ UNCHANGED << location, sheet_identifier, catIdx, business, files,
                    loopVars, sessionVars, browserVars, linkVars, writeVars,
                    lastCollect, collected, loadFailed, envVars, readVars,
                    setupVars, createVars, feedVars, scrollVars, nameVars,
                    slotVars, recordVars, storeVars, lastRotation >>

\* save_session_data(url) called on its own
SaveSessionData ==
    /\ pc = "session"
    /\ \E url \in SessUrls :
         sess_files' = save_session_data(sess_files, session_data, url)
    /\ loaded' = << >>
    /\ pc' = "session"
    /\ UNCHANGED << location, sheet_identifier, catIdx, business, files,
                    loopVars, sessionVars, browserVars, linkVars, writeVars,
                    lastCollect, collected, loadFailed, envVars, readVars,
                    setupVars, createVars, feedVars, scrollVars, nameVars,
                    slotVars, recordVars, storeVars, lastRotation,
                    session_data, last_set >>

\* load_session_data(url)
LoadSessionData ==
    /\ pc = "session"
    /\ \E url \in SessUrls :
         /\ session_data' = load_session_data(sess_files, session_data, url)
         /\ loaded' = url
    /\ pc' = "session"
    /\ UNCHANGED << location, sheet_identifier, catIdx, business, files,
                    loopVars, sessionVars, browserVars, linkVars, writeVars,
                    lastCollect, collected, loadFailed, envVars, readVars,
                    setupVars, createVars, feedVars, scrollVars, nameVars,
                    slotVars, recordVars, storeVars, lastRotation,
                    sess_files, last_set >>

NextSession ==
    \/ SetMatchSession
    \/ SaveSessionData
    \/ LoadSessionData

SpecSession == InitSession /\ [][NextSession]_vars

----------------------------------------------------------------------------
(* C31: session data is isolated between urls.  Right after               *)
(* load_session_data(u), get_match_session(u, k) gives for every key k the *)
(* value that set_match_session was last given for u and k, None when it   *)
(* was given none, whatever was set for other urls.                        *)

C31_SessionIsolation ==
    loaded # << >> =>
        \A k \in SessKeys :
            get_match_session(session_data, loaded, k) = last_set[loaded][k]

====
